---- MODULE Spec2Model ----
(***************************************************************************)
(* A model of specify_cli (src/src/specify_cli/__init__.py): the template  *)
(* fetch / materialize / command-generation / workspace-sync pipeline of   *)
(* `specify init` and the workflow status summary of `specify status`.     *)
(*                                                                         *)
(* A filesystem tree is a function from the paths that exist (sequences of *)
(* entry names, relative to the tree's root) to nodes: a directory or a    *)
(* file with a content.  The root itself is the empty path and is always a *)
(* directory.  Each component of the program has its own specification     *)
(* (SpecSync, ...): the variables of the other components are parked.      *)
(***************************************************************************)
EXTENDS Integers, Sequences, FiniteSets, TLC

VARIABLES
    sProject,     \* sync: the tree under project_path
    sWorkspace,   \* sync: the tree under workspace_root
    sWorkspace0,  \* sync: the tree under workspace_root when the call started
    sSame,        \* sync: project_path.resolve() == workspace_root.resolve()
    sIsGit,       \* sync: is_git_repo(workspace_root)
    sResult,      \* sync: what sync_workspace_config returned or raised
    mCwd,         \* materializer: the tree under Path.cwd()
    mCwd0,        \* materializer: that tree when the call started
    mHere,        \* materializer: is_current_dir (merge mode)
    mArchive,     \* materializer: the tree packed in the release's template asset
    mRelease,     \* materializer: the latest release the API describes
    mResult,      \* materializer: how download_and_extract_template ended
    fDir,         \* fetcher: the tree under download_dir
    fDir0,        \* fetcher: that tree when the call started
    fRelease,     \* fetcher: the latest release the API describes
    fRequest,     \* fetcher: ai_assistant and script_type of the call
    fResult,      \* fetcher: how download_template_from_github ended
    cfgFile,      \* generator: .specify/config/models.json of the project
    cfgPrev,      \* generator: models.json when the last call started
    cfgTemplates, \* generator: .specify/templates/commands of the project
    cfgOut,       \* generator: the assistant's output directory
    cfgCall,      \* generator: the arguments of the last call
    cfgClock,     \* generator: datetime.now()
    cfgStatus,    \* generator: how the last call of setup_agent_commands ended
    stDir,        \* status: the .specify directory
    stSummary,    \* status: what _collect_workflow_artifacts returned
    stPrimary,    \* status: what _pick_primary_suggestion returned
    iPc,          \* init: the step the command is at
    iOpt,         \* init: the options decided so far
    iTracker,     \* init: StepTracker.steps
    iTrace,       \* init: the components that ran, in order
    iExit,        \* init: the exit code, -1 while running
    iWorld,       \* init: the project path, requests sent, cache file written
    aEnv,         \* auth: --github-token and the environment's GH_TOKEN, GITHUB_TOKEN
    aRequests,    \* auth: the outbound requests sent so far, with their headers
    kCache,       \* catalog: ~/.specify/models_cache.json
    kNow,         \* catalog: time.time(), in hours
    kLast,        \* catalog: the last call of fetch_github_models by list-models
    tkSteps,      \* tracker: StepTracker.steps
    tkAttached,   \* tracker: whether a refresh callback is attached
    tkRefreshes,  \* tracker: the steps the callback saw, one entry per invocation
    tkOp          \* tracker: the last operation and how it ended

syncVars == <<sProject, sWorkspace, sWorkspace0, sSame, sIsGit, sResult>>

matVars == <<mCwd, mCwd0, mHere, mArchive, mRelease, mResult>>

fetchVars == <<fDir, fDir0, fRelease, fRequest, fResult>>

cfgVars == <<cfgFile, cfgPrev, cfgTemplates, cfgOut, cfgCall, cfgClock, cfgStatus>>

statusVars == <<stDir, stSummary, stPrimary>>

initVars == <<iPc, iOpt, iTracker, iTrace, iExit, iWorld>>

authVars == <<aEnv, aRequests>>

catalogVars == <<kCache, kNow, kLast>>

trackerVars == <<tkSteps, tkAttached, tkRefreshes, tkOp>>

vars == <<syncVars, matVars, fetchVars, cfgVars, statusVars, initVars, authVars, catalogVars,
          trackerVars>>

----------------------------------------------------------------------------
(* Bounds *)

\* file contents are 1..MaxContent
MaxContent == 2

Contents == 1..MaxContent

\* the release lists at most MaxAssets assets
MaxAssets == 2

\* the operations made on one StepTracker
MaxOps == 3

\* the longest body the catalog API answers with
MaxBody == 2

\* the hours the catalog's clock runs
MaxHours == 2

\* the generator stops when the clock reads MaxClock
MaxClock == 2

\* .specify/specs holds entries 1..MaxFeatures at most
MaxFeatures == 2

\* the entry names used below the roots
EntryNames == {"a", "b"}

----------------------------------------------------------------------------
(* Filesystem trees *)

Dir == [t |-> "dir", c |-> 0]

File(c) == [t |-> "file", c |-> c]

EmptyFS == [p \in {} |-> Dir]

Exists(fs, p) == p = <<>> \/ p \in DOMAIN fs

IsDir(fs, p) == p = <<>> \/ (p \in DOMAIN fs /\ fs[p].t = "dir")

IsFile(fs, p) == p \in DOMAIN fs /\ fs[p].t = "file"

Put(fs, p, n) == [q \in DOMAIN fs \cup {p} |-> IF q = p THEN n ELSE fs[q]]

Overlay(f, g) == [q \in DOMAIN f \cup DOMAIN g |-> IF q \in DOMAIN f THEN f[q] ELSE g[q]]

IsPrefix(d, p) == Len(d) <= Len(p) /\ SubSeq(p, 1, Len(d)) = d

Parent(p) == SubSeq(p, 1, Len(p) - 1)

\* the proper, non-root ancestors of p and p itself
Ancestors(p) == {SubSeq(p, 1, n) : n \in 1..Len(p)}

\* the names of the entries of directory d (Path.iterdir)
ChildNames(fs, d) ==
    {p[Len(p)] : p \in {q \in DOMAIN fs : Len(q) = Len(d) + 1 /\ IsPrefix(d, q)}}

\* Path.iterdir yields the entries in an order the filesystem chooses: ord is
\* that order, a sequence that holds every entry name once
IterDir(fs, d, ord) == SelectSeq(ord, LAMBDA n : n \in ChildNames(fs, d))

Orders == {o \in [1..Cardinality(EntryNames) -> EntryNames] :
              \A i, j \in DOMAIN o : i # j => o[i] # o[j]}

\* Path.mkdir(parents=True, exist_ok=True): fails when the path or one of its
\* ancestors is a file
MkdirOk(fs, p) == \A q \in Ancestors(p) : ~IsFile(fs, q)

MkdirP(fs, p) == [q \in DOMAIN fs \cup Ancestors(p) |-> IF q \in DOMAIN fs THEN fs[q] ELSE Dir]

\* the files of a tree, as <<path, content>> pairs
Files(fs) == {<<p, fs[p].c>> : p \in {q \in DOMAIN fs : fs[q].t = "file"}}

----------------------------------------------------------------------------
(* Workspace Synchronizer *)

WORKSPACE_DOT_DIRS == <<".github", ".vscode", ".specify">>

\* shutil.copy2(item, target) in _merge_directory, reached when the target does
\* not exist
MergeCopyFile(fs, target, node) == Put(fs, target, node)

\* the test for a directory only, not for any existing entry
MergeSkips_DirsOnly(fs, target) == IsDir(fs, target)

\* whether _merge_directory leaves an entry alone
MergeSkips(fs, target) == Exists(fs, target)

RECURSIVE MergeItems(_, _, _, _, _, _, _)
RECURSIVE MergeDirectory(_, _, _, _, _)

\* _merge_directory(source, destination): src is the tree that holds source (at
\* path s), fs the tree that holds destination (at path d).  The result is the
\* destination tree, the relative paths copied, and whether the call returned
\* (ok) or raised.
MergeDirectory(src, fs, s, d, ord) ==
    IF ~IsDir(src, s)
    THEN [fs |-> fs, copied |-> <<>>, ok |-> TRUE]
    ELSE IF ~MkdirOk(fs, d)
    THEN [fs |-> fs, copied |-> <<>>, ok |-> FALSE]
    ELSE MergeItems(src, MkdirP(fs, d), s, d, IterDir(src, s, ord), ord, <<>>)

\* the loop of _merge_directory over source.iterdir()
MergeItems(src, fs, s, d, items, ord, copied) ==
    IF items = <<>>
    THEN [fs |-> fs, copied |-> copied, ok |-> TRUE]
    ELSE LET name   == Head(items)
             item   == s \o <<name>>
             target == d \o <<name>>
         IN  IF IsDir(src, item)
             THEN LET r == MergeDirectory(src, fs, item, target, ord)
                      sub == [i \in 1..Len(r.copied) |-> <<name>> \o r.copied[i]]
                  IN  IF r.ok
                      THEN MergeItems(src, r.fs, s, d, Tail(items), ord, copied \o sub)
                      ELSE [fs |-> r.fs, copied |-> copied \o sub, ok |-> FALSE]
             ELSE IF MergeSkips(fs, target)
             THEN MergeItems(src, fs, s, d, Tail(items), ord, copied)
             ELSE MergeItems(src, MergeCopyFile(fs, target, src[item]), s, d,
                             Tail(items), ord, copied \o <<<<name>>>>)

RECURSIVE SyncDirs(_, _, _, _, _)
\* the loop of sync_workspace_config over WORKSPACE_DOT_DIRS
SyncDirs(proj, ws, dirs, ord, synced) ==
    IF dirs = <<>>
    THEN [fs |-> ws, synced |-> synced, ok |-> TRUE]
    ELSE LET dirname == Head(dirs)
         IN  IF ~Exists(proj, <<dirname>>)
             THEN SyncDirs(proj, ws, Tail(dirs), ord, synced)
             ELSE LET r == MergeDirectory(proj, ws, <<dirname>>, <<dirname>>, ord)
                  IN  IF ~r.ok
                      THEN [fs |-> r.fs, synced |-> synced, ok |-> FALSE]
                      ELSE SyncDirs(proj, r.fs, Tail(dirs), ord,
                                    IF r.copied # <<>> THEN Append(synced, dirname) ELSE synced)

\* sync_workspace_config without the is_git_repo test
SyncWorkspaceConfig_NoGitTest(proj, ws, same, isGit, ord) ==
    IF same
    THEN [fs |-> ws, status |-> "returned", changed |-> FALSE, detail |-> "project is workspace root", synced |-> <<>>]
    ELSE LET r == SyncDirs(proj, ws, WORKSPACE_DOT_DIRS, ord, <<>>)
         IN  IF ~r.ok
             THEN [fs |-> r.fs, status |-> "raised", changed |-> FALSE, detail |-> "", synced |-> r.synced]
             ELSE IF r.synced = <<>>
             THEN [fs |-> r.fs, status |-> "returned", changed |-> FALSE, detail |-> "no workspace directories to sync", synced |-> <<>>]
             ELSE [fs |-> r.fs, status |-> "returned", changed |-> TRUE, detail |-> "synced", synced |-> r.synced]

\* sync_workspace_config without the test of an empty synced_dirs
SyncWorkspaceConfig_NoEmptyTest(proj, ws, same, isGit, ord) ==
    IF same
    THEN [fs |-> ws, status |-> "returned", changed |-> FALSE, detail |-> "project is workspace root", synced |-> <<>>]
    ELSE IF ~isGit
    THEN [fs |-> ws, status |-> "returned", changed |-> FALSE, detail |-> "workspace root not a git repo", synced |-> <<>>]
    ELSE LET r == SyncDirs(proj, ws, WORKSPACE_DOT_DIRS, ord, <<>>)
         IN  IF ~r.ok
             THEN [fs |-> r.fs, status |-> "raised", changed |-> FALSE, detail |-> "", synced |-> r.synced]
             ELSE [fs |-> r.fs, status |-> "returned", changed |-> TRUE, detail |-> "synced", synced |-> r.synced]

\* sync_workspace_config(project_path, workspace_root)
SyncWorkspaceConfig(proj, ws, same, isGit, ord) ==
    IF same
    THEN [fs |-> ws, status |-> "returned", changed |-> FALSE, detail |-> "project is workspace root", synced |-> <<>>]
    ELSE IF ~isGit
    THEN [fs |-> ws, status |-> "returned", changed |-> FALSE, detail |-> "workspace root not a git repo", synced |-> <<>>]
    ELSE LET r == SyncDirs(proj, ws, WORKSPACE_DOT_DIRS, ord, <<>>)
         IN  IF ~r.ok
             THEN [fs |-> r.fs, status |-> "raised", changed |-> FALSE, detail |-> "", synced |-> r.synced]
             ELSE IF r.synced = <<>>
             THEN [fs |-> r.fs, status |-> "returned", changed |-> FALSE, detail |-> "no workspace directories to sync", synced |-> <<>>]
             ELSE [fs |-> r.fs, status |-> "returned", changed |-> TRUE, detail |-> "synced", synced |-> r.synced]

NoResult == [status |-> "none", changed |-> FALSE, detail |-> "", synced |-> <<>>]

\* the trees a dot-directory is drawn from: absent, a file, or a directory
\* with a file, a directory or nothing at a, and the same at a/b
DeepShapes(d) ==
    {EmptyFS}
    \cup {Put(EmptyFS, <<d>>, File(c)) : c \in Contents}
    \cup {Put(EmptyFS, <<d>>, Dir)}
    \cup {Put(Put(EmptyFS, <<d>>, Dir), <<d, "a">>, n) : n \in {Dir} \cup {File(c) : c \in Contents}}
    \cup {Put(Put(Put(EmptyFS, <<d>>, Dir), <<d, "a">>, Dir), <<d, "a", "b">>, n) :
            n \in {Dir} \cup {File(c) : c \in Contents}}

\* absent, empty, or a directory with the siblings a and b
WideShapes(d) ==
    {EmptyFS, Put(EmptyFS, <<d>>, Dir)}
    \cup {Put(Put(EmptyFS, <<d>>, Dir), <<d, "a">>, File(1))}
    \cup {Put(Put(EmptyFS, <<d>>, Dir), <<d, "b">>, n) : n \in {Dir, File(1)}}
    \cup {Put(Put(Put(EmptyFS, <<d>>, Dir), <<d, "a">>, File(1)), <<d, "b">>, n) : n \in {Dir, File(1)}}

FlatShapes(d) ==
    {EmptyFS, Put(Put(EmptyFS, <<d>>, Dir), <<d, "a">>, File(1))}

SyncTrees ==
    {Overlay(g, Overlay(v, s)) :
        g \in DeepShapes(".github"), v \in WideShapes(".vscode"), s \in FlatShapes(".specify")}

SyncInit ==
    /\ sWorkspace \in SyncTrees
    /\ sWorkspace0 = sWorkspace
    /\ sSame \in BOOLEAN
    /\ sProject \in IF sSame THEN {sWorkspace} ELSE SyncTrees
    /\ sIsGit \in BOOLEAN
    /\ sResult = NoResult

\* one call of sync_workspace_config
Sync ==
    /\ sResult.status = "none"
    /\ \E ord \in Orders :
         LET r == SyncWorkspaceConfig(sProject, sWorkspace, sSame, sIsGit, ord)
         IN  /\ sWorkspace' = r.fs
             /\ sProject' = IF sSame THEN r.fs ELSE sProject
             /\ sResult' = [status |-> r.status, changed |-> r.changed,
                            detail |-> r.detail, synced |-> r.synced]
    /\ UNCHANGED <<sWorkspace0, sSame, sIsGit>>

----------------------------------------------------------------------------
(* Archive Fetcher *)

\* asset["name"] as the pieces that "pattern in name" and name.endswith(".zip")
\* read: the text between the dashes, and the suffixes
NameTokens(name) ==
    CASE name = "spec-kit-template-copilot-sh-v1.zip" ->
            <<"spec-kit-template", "copilot", "sh", "v1", ".zip">>
      [] name = "spec-kit-template-copilot-ps-v1.zip" ->
            <<"spec-kit-template", "copilot", "ps", "v1", ".zip">>
      [] name = "spec-kit-template-claude-sh-v1.zip" ->
            <<"spec-kit-template", "claude", "sh", "v1", ".zip">>
      [] name = "spec-kit-template-copilot-sh-v1.zip.sha256" ->
            <<"spec-kit-template", "copilot", "sh", "v1", ".zip", ".sha256">>
      [] name = "old-spec-kit-template-copilot-sh-v0.zip" ->
            <<"old", "spec-kit-template", "copilot", "sh", "v0", ".zip">>
      [] OTHER -> <<name>>

AssetNames ==
    {"spec-kit-template-copilot-sh-v1.zip", "spec-kit-template-copilot-ps-v1.zip",
     "spec-kit-template-claude-sh-v1.zip", "spec-kit-template-copilot-sh-v1.zip.sha256",
     "old-spec-kit-template-copilot-sh-v0.zip"}

\* pattern = f"spec-kit-template-{ai_assistant}-{script_type}"
Pattern(ai, st) == <<"spec-kit-template", ai, st>>

\* pattern in name
Contains(tokens, pat) ==
    \E i \in 1..(Len(tokens) - Len(pat) + 1) : SubSeq(tokens, i, i + Len(pat) - 1) = pat

\* name.endswith(".zip")
EndsWithZip(tokens) == Len(tokens) > 0 /\ tokens[Len(tokens)] = ".zip"

\* the test without name.endswith(".zip")
AssetMatches_NoZipTest(asset, ai, st) ==
    Contains(NameTokens(asset.name), Pattern(ai, st))

AssetMatches(asset, ai, st) ==
    Contains(NameTokens(asset.name), Pattern(ai, st)) /\ EndsWithZip(NameTokens(asset.name))

\* matching_assets
MatchingAssets(assets, ai, st) == SelectSeq(assets, LAMBDA a : AssetMatches(a, ai, st))

\* the last match instead of the first
PickAsset_Last(matching) == matching[Len(matching)]

\* asset = matching_assets[0] if matching_assets else None
PickAsset(matching) == Head(matching)

\* the bytes of the template archive, as a file
ArchiveFile == [t |-> "file", c |-> 0]

NoMeta == [filename |-> "", size |-> 0, release |-> "", asset_url |-> ""]

Remove(fs, p) == [q \in DOMAIN fs \ {p} |-> fs[q]]

\* an except branch that reports the failure without unlinking zip_path
DownloadFailed_Leaves(fs, zip) ==
    [fs |-> fs, status |-> "exit1", stage |-> "download",
     message |-> [text |-> "Error downloading template", expected |-> <<>>],
     zip |-> zip, meta |-> NoMeta]

\* the except branch of the download: the file at zip_path is unlinked when
\* something exists there; unlink of a directory raises
DownloadFailed(fs, zip) ==
    LET msg == [text |-> "Error downloading template", expected |-> <<>>]
    IN  IF ~Exists(fs, zip)
        THEN [fs |-> fs, status |-> "exit1", stage |-> "download", message |-> msg, zip |-> zip, meta |-> NoMeta]
        ELSE IF IsDir(fs, zip)
        THEN [fs |-> fs, status |-> "raised", stage |-> "download", message |-> msg, zip |-> zip, meta |-> NoMeta]
        ELSE [fs |-> Remove(fs, zip), status |-> "exit1", stage |-> "download", message |-> msg, zip |-> zip, meta |-> NoMeta]

\* the exit taken when no asset matches: the message names the expected pattern
NoMatchingAsset(fs, pat) ==
    [fs |-> fs, status |-> "exit1", stage |-> "no_asset",
     message |-> [text |-> "No matching release asset found", expected |-> pat],
     zip |-> <<>>, meta |-> NoMeta]

\* download_template_from_github(ai_assistant, download_dir, script_type=...):
\* fs is the tree under download_dir, api how the release request went ("ok" or
\* not), dl how the asset download went ("ok", "status": answered with a status
\* other than 200, "stream": an error after the local file was opened)
DownloadTemplate(fs, release, ai, st, api, dl) ==
    LET pat      == Pattern(ai, st)
        matching == MatchingAssets(release.assets, ai, st)
    IN  IF api # "ok"
        THEN [fs |-> fs, status |-> "exit1", stage |-> "release",
              message |-> [text |-> "Error fetching release information", expected |-> <<>>],
              zip |-> <<>>, meta |-> NoMeta]
        ELSE IF matching = <<>>
        THEN NoMatchingAsset(fs, pat)
        ELSE LET asset == PickAsset(matching)
                 zip   == <<asset.name>>
             IN  IF dl = "status" \/ IsDir(fs, zip)
                 THEN DownloadFailed(fs, zip)
                 ELSE IF dl = "stream"
                 THEN DownloadFailed(Put(fs, zip, ArchiveFile), zip)
                 ELSE [fs |-> Put(fs, zip, ArchiveFile), status |-> "ok", stage |-> "done",
                       message |-> [text |-> "Downloaded", expected |-> <<>>], zip |-> zip,
                       meta |-> [filename |-> asset.name, size |-> asset.size,
                                 release |-> release.tag_name,
                                 asset_url |-> asset.browser_download_url]]

ApiOutcomes == {"ok", "error"}

DownloadOutcomes == {"ok", "status", "stream"}

Assets ==
    [name : AssetNames, size : {1, 2}, browser_download_url : {"u1", "u2"}]

Releases ==
    {[tag_name |-> t, assets |-> a] :
        t \in {"v1", "v2"}, a \in UNION {[1..n -> Assets] : n \in 0..MaxAssets}}

Requests == [ai : {"copilot", "claude"}, st : {"sh", "ps"}]

NoFetchResult ==
    [status |-> "none", stage |-> "", message |-> [text |-> "", expected |-> <<>>],
     zip |-> <<>>, meta |-> NoMeta]

FetchInit ==
    /\ fRelease \in Releases
    /\ fRequest \in Requests
    /\ fDir \in {EmptyFS, Put(EmptyFS, <<"spec-kit-template-copilot-sh-v1.zip">>, File(1)),
                 Put(EmptyFS, <<"spec-kit-template-copilot-sh-v1.zip">>, Dir)}
    /\ fDir0 = fDir
    /\ fResult = NoFetchResult

\* one call of download_template_from_github
Fetch ==
    /\ fResult.status = "none"
    /\ \E api \in ApiOutcomes, dl \in DownloadOutcomes :
         LET r == DownloadTemplate(fDir, fRelease, fRequest.ai, fRequest.st, api, dl)
         IN  /\ fDir' = r.fs
             /\ fResult' = [status |-> r.status, stage |-> r.stage, message |-> r.message,
                            zip |-> r.zip, meta |-> r.meta]
    /\ UNCHANGED <<fDir0, fRelease, fRequest>>

FetchParked ==
    /\ fDir = EmptyFS
    /\ fDir0 = EmptyFS
    /\ fRelease = [tag_name |-> "", assets |-> <<>>]
    /\ fRequest = [ai |-> "", st |-> ""]
    /\ fResult = NoFetchResult

----------------------------------------------------------------------------
(* Archive Materializer *)

\* the paths of fs below d
Under(fs, d) == {p \in DOMAIN fs : IsPrefix(d, p) /\ p # d}

\* shutil.rmtree(d)
RmTree(fs, d) == [q \in {p \in DOMAIN fs : ~IsPrefix(d, p)} |-> fs[q]]

\* the subtree of src at s (s is a directory, or the root), put at d
Graft(fs, src, s, d) ==
    LET sub == Under(src, s) \cup (IF s = <<>> THEN {} ELSE {s})
        At(p) == d \o SubSeq(p, Len(s) + 1, Len(p))
        new == {At(p) : p \in sub}
    IN  [q \in DOMAIN fs \cup new |->
            IF q \in new
            THEN (IF q = d THEN Dir ELSE src[s \o SubSeq(q, Len(d) + 1, Len(q))])
            ELSE fs[q]]

\* os.rename(s, d) of a directory onto a path that does not exist
Rename(fs, s, d) == Graft(RmTree(fs, s), fs, s, d)

\* shutil.copy2(src, dst) of a file named base: a dst that is a directory
\* receives the file under the name base; a directory at that place raises
Copy2(fs, dst, base, node) ==
    IF IsDir(fs, dst)
    THEN IF IsDir(fs, dst \o <<base>>)
         THEN [fs |-> fs, ok |-> FALSE]
         ELSE [fs |-> Put(fs, dst \o <<base>>, node), ok |-> TRUE]
    ELSE [fs |-> Put(fs, dst, node), ok |-> TRUE]

RECURSIVE Walk(_, _, _)
RECURSIVE WalkItems(_, _, _, _)
\* item.rglob('*'), the files only: the paths of the files below d, each
\* directory read in the order ord
Walk(arch, d, ord) == WalkItems(arch, d, IterDir(arch, d, ord), ord)

WalkItems(arch, d, items, ord) ==
    IF items = <<>>
    THEN <<>>
    ELSE LET p == d \o <<Head(items)>>
         IN  (IF IsDir(arch, p) THEN Walk(arch, p, ord) ELSE <<p>>)
             \o WalkItems(arch, d, Tail(items), ord)

RECURSIVE MergeFiles(_, _, _, _, _)
\* the loop over item.rglob('*') that merges the directory item of the
\* archive into the existing dest_path
MergeFiles(arch, fs, item, dest, files) ==
    IF files = <<>>
    THEN [fs |-> fs, ok |-> TRUE]
    ELSE LET sub  == Head(files)
             rel  == SubSeq(sub, Len(item) + 1, Len(sub))
             dfile == dest \o rel
         IN  IF ~MkdirOk(fs, Parent(dfile))
             THEN [fs |-> fs, ok |-> FALSE]
             ELSE LET r == Copy2(MkdirP(fs, Parent(dfile)), dfile, sub[Len(sub)], arch[sub])
                  IN  IF r.ok
                      THEN MergeFiles(arch, r.fs, item, dest, Tail(files))
                      ELSE r

RECURSIVE CopyContents(_, _, _, _, _, _)
\* "Copy contents to current directory": the loop over source_dir.iterdir()
CopyContents(arch, fs, source, project, items, ord) ==
    IF items = <<>>
    THEN [fs |-> fs, ok |-> TRUE]
    ELSE LET item == source \o <<Head(items)>>
             dest == project \o <<Head(items)>>
             r == IF IsDir(arch, item)
                  THEN IF Exists(fs, dest)
                       THEN MergeFiles(arch, fs, item, dest, Walk(arch, item, ord))
                       ELSE [fs |-> Graft(fs, arch, item, dest), ok |-> TRUE]
                  ELSE Copy2(fs, dest, Head(items), arch[item])
         IN  IF r.ok
             THEN CopyContents(arch, r.fs, source, project, Tail(items), ord)
             ELSE r

\* "Handle GitHub-style ZIP with a single root directory": whether the
\* extracted tree has exactly one top-level entry and it is a directory
SingleRootDir(tree, root) ==
    /\ Cardinality(ChildNames(tree, root)) = 1
    /\ \A n \in ChildNames(tree, root) : IsDir(tree, root \o <<n>>)

TheChild(tree, root) == CHOOSE n \in ChildNames(tree, root) : TRUE

\* source_dir of the merge branch
SourceDir(arch) == IF SingleRootDir(arch, <<>>) THEN <<TheChild(arch, <<>>)>> ELSE <<>>

\* the merge branch (is_current_dir): the archive is extracted to a temporary
\* directory and its effective tree is copied into project_path
MergeExtract(fs, project, arch, failAt, ord1, ord2) ==
    IF failAt \in {"badzip", "extract", "copy"}
    THEN [fs |-> fs, ok |-> FALSE, at |-> failAt]
    ELSE LET r == CopyContents(arch, fs, SourceDir(arch), project,
                               IterDir(arch, SourceDir(arch), ord1), ord2)
         IN  [fs |-> r.fs, ok |-> r.ok, at |-> IF r.ok THEN "" ELSE "copy"]

\* shutil.move(src, dst) of the directory src: into dst when dst is a
\* directory, onto dst when nothing is there; a file at dst or an entry of the
\* same name in dst raises
ShutilMove(fs, src, dst) ==
    IF IsDir(fs, dst)
    THEN IF Exists(fs, dst \o <<src[Len(src)]>>)
         THEN [fs |-> fs, ok |-> FALSE]
         ELSE [fs |-> Rename(fs, src, dst \o <<src[Len(src)]>>), ok |-> TRUE]
    ELSE IF Exists(fs, dst)
    THEN [fs |-> fs, ok |-> FALSE]
    ELSE [fs |-> Rename(fs, src, dst), ok |-> TRUE]

\* temp_move_dir = project_path.parent / f"{project_path.name}_temp"
TempMoveDir(project) == Parent(project) \o <<"proj_temp">>

\* the flatten of the fresh branch: nested directory to the temporary name,
\* project_path.rmdir(), temporary name to project_path
Flatten(fs, project) ==
    LET nested == project \o <<TheChild(fs, project)>>
        m1 == ShutilMove(fs, nested, TempMoveDir(project))
    IN  IF ~m1.ok
        THEN m1
        ELSE ShutilMove(Remove(m1.fs, project), TempMoveDir(project), project)

\* the fresh branch: project_path.mkdir(parents=True), extractall into it,
\* then the flatten
FreshExtract(fs, project, arch, failAt) ==
    IF failAt = "mkdir" \/ Exists(fs, project)
    THEN [fs |-> fs, ok |-> FALSE, at |-> "mkdir"]
    ELSE LET made == Put(fs, project, Dir)
             full == Graft(made, arch, <<>>, project)
         IN  IF failAt = "badzip"
             THEN [fs |-> made, ok |-> FALSE, at |-> "badzip"]
             ELSE IF failAt = "extract"
             THEN [fs |-> full, ok |-> FALSE, at |-> "extract"]
             ELSE IF SingleRootDir(full, project)
             THEN (IF failAt = "flatten"
                   THEN [fs |-> full, ok |-> FALSE, at |-> "flatten"]
                   ELSE LET f == Flatten(full, project)
                        IN  [fs |-> f.fs, ok |-> f.ok, at |-> IF f.ok THEN "" ELSE "flatten"])
             ELSE [fs |-> full, ok |-> TRUE, at |-> ""]

\* a cleanup that removes nothing
CleanupProject_Keeps(fs, project, here) == [fs |-> fs, ok |-> TRUE]

\* "Clean up project directory if created and not current directory":
\* shutil.rmtree(project_path) when it exists; rmtree of a file raises
CleanupProject(fs, project, here) ==
    IF ~here /\ Exists(fs, project)
    THEN IF IsDir(fs, project)
         THEN [fs |-> RmTree(fs, project), ok |-> TRUE]
         ELSE [fs |-> fs, ok |-> FALSE]
    ELSE [fs |-> fs, ok |-> TRUE]

\* a finally clause that leaves the archive where it is
CleanupZip_Never(fs, zip) == fs

\* the finally clause: zip_path.unlink() when it exists
CleanupZip(fs, zip) == IF Exists(fs, zip) THEN Remove(fs, zip) ELSE fs

ProjectPath(here) == IF here THEN <<>> ELSE <<"proj">>

\* download_and_extract_template(project_path, ai_assistant, script_type,
\* is_current_dir): fs is the tree under Path.cwd().  status is "ok" (returned),
\* "exit1" (typer.Exit(1)) or "raised" (another exception left the function).
DownloadAndExtract(fs, here, arch, release, ai, st, api, dl, failAt, ord1, ord2) ==
    LET project == ProjectPath(here)
        d == DownloadTemplate(fs, release, ai, st, api, dl)
    IN  IF d.status # "ok"
        THEN [fs |-> d.fs, status |-> d.status, stage |-> d.stage, at |-> "",
              downloaded |-> FALSE, message |-> d.message, zip |-> d.zip]
        ELSE LET x == IF here
                      THEN MergeExtract(d.fs, project, arch, failAt, ord1, ord2)
                      ELSE FreshExtract(d.fs, project, arch, failAt)
                 c == CleanupProject(x.fs, project, here)
             IN  IF x.ok
                 THEN [fs |-> CleanupZip(x.fs, d.zip), status |-> "ok", stage |-> "done",
                       at |-> "", downloaded |-> TRUE, message |-> d.message, zip |-> d.zip]
                 ELSE [fs |-> CleanupZip(c.fs, d.zip),
                       status |-> IF c.ok THEN "exit1" ELSE "raised",
                       stage |-> "extract", at |-> x.at, downloaded |-> TRUE,
                       message |-> [text |-> "Error extracting template", expected |-> <<>>],
                       zip |-> d.zip]

\* the exit status of the process: 0 when the function returned, 1 for
\* typer.Exit(1) and for an exception nothing catches
ExitCode(status) == IF status = "ok" THEN 0 ELSE 1

FailPoints == {"none", "mkdir", "badzip", "extract", "flatten", "copy"}


ZipName == "spec-kit-template-copilot-sh-v1.zip"

TemplateAsset == [name |-> ZipName, size |-> 1, browser_download_url |-> "u1"]

OtherAssets ==
    <<[name |-> "spec-kit-template-copilot-ps-v1.zip", size |-> 1, browser_download_url |-> "u2"],
      [name |-> "spec-kit-template-copilot-sh-v1.zip.sha256", size |-> 1, browser_download_url |-> "u3"]>>

\* the releases the materializer is run against: with the template asset, with
\* other assets only, with none
MatReleases ==
    {[tag_name |-> "v1", assets |-> a] : a \in {<<TemplateAsset>>, OtherAssets, <<>>}}

\* nothing, or one of the nodes at p
Opt(p, nodes) == {EmptyFS} \cup {Put(EmptyFS, p, n) : n \in nodes}

FileNodes == {File(c) : c \in Contents}

\* the trees packed in the archive
ArchiveTrees ==
    LET A == Opt(<<"a">>, {File(1)})
             \cup {Overlay(Put(EmptyFS, <<"a">>, Dir), Overlay(x, y)) :
                     x \in Opt(<<"a", "a">>, {File(1), Dir}),
                     y \in Opt(<<"a", "b">>, {File(1), Dir})}
        B == Opt(<<"b">>, {File(1), Dir})
    IN  {Overlay(x, y) : x \in A, y \in B}

Root == Put(EmptyFS, <<>>, Dir)

\* the current directory before a merge run
MergeCwds ==
    LET A == Opt(<<"a">>, FileNodes)
             \cup {Overlay(Put(EmptyFS, <<"a">>, Dir), Overlay(x, y)) :
                     x \in Opt(<<"a", "a">>, FileNodes \cup {Dir}),
                     y \in Opt(<<"a", "b">>, FileNodes)}
        B == Opt(<<"b">>, {File(1), Dir})
        Z == Opt(<<ZipName>>, {File(1), Dir})
    IN  {Overlay(Root, Overlay(x, Overlay(y, z))) : x \in A, y \in B, z \in Z}

\* the current directory before a fresh run: the project path, the path
\* beside it that the flatten uses, the path of the archive
FreshCwds ==
    LET P == Opt(<<"proj">>, {File(1), Dir})
             \cup {Put(Put(EmptyFS, <<"proj">>, Dir), <<"proj", "a">>, File(1))}
        T == Opt(<<"proj_temp">>, {File(1), Dir})
             \cup {Put(Put(EmptyFS, <<"proj_temp">>, Dir), <<"proj_temp", "a">>, n) :
                     n \in FileNodes \cup {Dir}}
        Z == Opt(<<ZipName>>, {File(1), Dir})
    IN  {Overlay(Root, Overlay(x, Overlay(y, z))) : x \in P, y \in T, z \in Z}

NoMatResult ==
    [status |-> "none", stage |-> "", at |-> "", downloaded |-> FALSE,
     message |-> [text |-> "", expected |-> <<>>], zip |-> <<>>]

MatInit ==
    /\ mHere \in BOOLEAN
    /\ mCwd \in IF mHere THEN MergeCwds ELSE FreshCwds
    /\ mCwd0 = mCwd
    /\ mRelease \in MatReleases
    /\ mArchive \in IF MatchingAssets(mRelease.assets, "copilot", "sh") = <<>>
                     THEN {EmptyFS}
                     ELSE ArchiveTrees
    /\ mResult = NoMatResult

AnOrder == CHOOSE o \in Orders : TRUE

\* what the environment decides in one run: how the two requests go, the step at
\* which an I/O error strikes (if any), and the orders in which the top level
\* and the lower levels of the extracted tree are listed.  The orders are read
\* only by a run that reaches the copy loop.
MatInputs ==
    {[api |-> "error", dl |-> "ok", failAt |-> "none", ord1 |-> AnOrder, ord2 |-> AnOrder]}
    \cup {[api |-> "ok", dl |-> d, failAt |-> "none", ord1 |-> AnOrder, ord2 |-> AnOrder] :
            d \in DownloadOutcomes \ {"ok"}}
    \cup {[api |-> "ok", dl |-> "ok", failAt |-> f, ord1 |-> AnOrder, ord2 |-> AnOrder] :
            f \in FailPoints \ {"none"}}
    \cup {[api |-> "ok", dl |-> "ok", failAt |-> "none", ord1 |-> o1, ord2 |-> o2] :
            o1 \in Orders, o2 \in Orders}

\* one call of download_and_extract_template(project_path, "copilot", "sh", here)
Materialize ==
    /\ mResult.status = "none"
    /\ \E i \in MatInputs :
         LET r == DownloadAndExtract(mCwd, mHere, mArchive, mRelease, "copilot", "sh",
                                     i.api, i.dl, i.failAt, i.ord1, i.ord2)
         IN  /\ mCwd' = r.fs
             /\ mResult' = [status |-> r.status, stage |-> r.stage, at |-> r.at,
                            downloaded |-> r.downloaded, message |-> r.message, zip |-> r.zip]
    /\ UNCHANGED <<mCwd0, mHere, mArchive, mRelease>>

MatParked ==
    /\ mCwd = EmptyFS
    /\ mCwd0 = EmptyFS
    /\ mHere = FALSE
    /\ mArchive = EmptyFS
    /\ mRelease = [tag_name |-> "", assets |-> <<>>]
    /\ mResult = NoMatResult

SyncParked ==
    /\ sProject = EmptyFS
    /\ sWorkspace = EmptyFS
    /\ sWorkspace0 = EmptyFS
    /\ sSame = FALSE
    /\ sIsGit = FALSE
    /\ sResult = NoResult

----------------------------------------------------------------------------
(* Command Generator: setup_agent_commands *)

\* A JSON value is [k |-> kind, v |-> members]: kind "obj" for an object with
\* its members, "list" for a JSON value that is no object; a file is also
\* "absent" or "corrupt" (not valid JSON).
EmptyDict == [x \in {} |-> ""]

JObj(d) == [k |-> "obj", v |-> d]

JOther(kind) == [k |-> kind, v |-> EmptyDict]

\* dict.get(key, default)
DictGet(d, key, default) == IF key \in DOMAIN d THEN d[key] ELSE default

\* d[key] = val
DictSet(d, key, val) == [x \in DOMAIN d \cup {key} |-> IF x = key THEN val ELSE d[x]]

\* d.update(e)
DictUpdate(d, e) == [x \in DOMAIN d \cup DOMAIN e |-> IF x \in DOMAIN e THEN e[x] ELSE d[x]]

\* datetime(...).isoformat() of a point in time
IsoFormat(t) == <<"iso", t>>

\* agent_configs: the assistants the generator knows
agent_configs ==
    [copilot |-> [dir |-> <<".github", "prompts">>, format |-> "prompt.md",
                  arg_placeholder |-> "$ARGUMENTS"]]

\* script_folder_map.get(script_type, script_type)
ScriptFolder(script_type) ==
    CASE script_type = "ps" -> "powershell"
      [] script_type = "sh" -> "bash"
      [] OTHER -> script_type

\* script_extension_map.get(script_type, script_type)
ScriptExtension(script_type) ==
    CASE script_type = "ps" -> "ps1"
      [] script_type = "sh" -> "sh"
      [] OTHER -> script_type

\* _load_models_cache_metadata() or {}: the source and timestamp it yields; ""
\* and 0 stand for a missing member
LoadModelsCacheMetadata(cache) ==
    IF cache.k = "obj"
    THEN [source |-> cache.source, timestamp |-> cache.timestamp]
    ELSE [source |-> "", timestamp |-> 0]

\* an update that sets catalog_source whenever the catalog names one
GithubMetaUpdate_AlwaysSource(gm, selected_model, cat, now) ==
    IF selected_model # ""
    THEN DictUpdate(gm, [selected_model |-> selected_model,
                         last_updated |-> IsoFormat(now),
                         catalog_source |-> IF cat.source # ""
                                            THEN cat.source
                                            ELSE DictGet(gm, "catalog_source", "user-selection")])
    ELSE IF cat.source # ""
    THEN DictSet(gm, "catalog_source", cat.source)
    ELSE gm

\* lines 1258-1267: what the call does to the github_models record
GithubMetaUpdate(gm, selected_model, cat, now) ==
    IF selected_model # ""
    THEN DictUpdate(gm, [selected_model |-> selected_model,
                         last_updated |-> IsoFormat(now),
                         catalog_source |-> IF cat.source # ""
                                            THEN cat.source
                                            ELSE DictGet(gm, "catalog_source", "user-selection")])
    ELSE IF cat.source # "" /\ "catalog_source" \notin DOMAIN gm
    THEN DictSet(gm, "catalog_source", cat.source)
    ELSE gm

\* lines 1269-1274
CatalogCachedAt(gm, cat) ==
    IF cat.timestamp # 0 /\ "catalog_cached_at" \notin DOMAIN gm
    THEN DictSet(gm, "catalog_cached_at", IsoFormat(cat.timestamp))
    ELSE gm

\* lines 1277-1282
ScriptsRecord(script_type, now) ==
    [preferred |-> script_type,
     folder |-> ScriptFolder(script_type),
     extension |-> ScriptExtension(script_type),
     last_updated |-> IsoFormat(now)]

\* lines 1246-1284: models.json after the call, or the exception that ends it.
\* A github_models value that is a list fails on update() and on item
\* assignment; the assignment of catalog_cached_at is inside a try.
PersistConfig(file, script_type, selected_model, cache, now, later) ==
    LET existing == IF file.k \in {"absent", "corrupt"} THEN JObj(EmptyDict) ELSE file
        cat == LoadModelsCacheMetadata(cache)
    IN  IF existing.k # "obj"
        THEN [file |-> file, ok |-> FALSE]
        ELSE LET gm == DictGet(existing.v, "github_models", JObj(EmptyDict))
             IN  IF gm.k # "obj" /\ (selected_model # "" \/ cat.source # "")
                 THEN [file |-> file, ok |-> FALSE]
                 ELSE LET meta == IF gm.k # "obj"
                                  THEN gm
                                  ELSE JObj(CatalogCachedAt(
                                           GithubMetaUpdate(gm.v, selected_model, cat, now), cat))
                          payload == DictSet(DictSet(existing.v, "github_models", meta),
                                             "scripts", JObj(ScriptsRecord(script_type, later)))
                      IN  [file |-> JObj(payload), ok |-> TRUE]

\* A template text is a sequence of pieces: plain text, the literal
\* "$ARGUMENTS", the literal "{SCRIPT}", or a script path.
Piece(t) == [t |-> t, folder |-> "", stem |-> "", ext |-> ""]

\* only the first of the two replacements
ReplacePlaceholders_ArgsOnly(content, ph, folder, stem, ext) ==
    [i \in DOMAIN content |-> IF content[i].t = "args" THEN Piece(ph) ELSE content[i]]

\* content.replace("$ARGUMENTS", ph).replace("{SCRIPT}", path)
ReplacePlaceholders(content, ph, folder, stem, ext) ==
    [i \in DOMAIN content |->
        IF content[i].t = "args" THEN Piece(ph)
        ELSE IF content[i].t = "script"
        THEN [t |-> "path", folder |-> folder, stem |-> stem, ext |-> ext]
        ELSE content[i]]

\* the placeholder literal as a piece kind
PlaceholderPiece(ph) == IF ph = "$ARGUMENTS" THEN "args" ELSE ph

\* lines 1287-1309: the output directory after the templates are processed; a
\* file name is <<stem, suffix>>
GenerateCommands(out, templates, config, script_type) ==
    IF ~templates.exists
    THEN out
    ELSE LET md == {n \in DOMAIN templates.files : n[2] = ".md"}
             suffix == IF config.format = "toml" THEN ".toml"
                       ELSE IF config.format = "prompt.md" THEN ".prompt.md" ELSE ".md"
             made == {<<n[1], suffix>> : n \in md}
         IN  [f \in DOMAIN out \cup made |->
                 IF f \in made
                 THEN ReplacePlaceholders(templates.files[<<f[1], ".md">>],
                                          PlaceholderPiece(config.arg_placeholder),
                                          ScriptFolder(script_type), f[1],
                                          ScriptExtension(script_type))
                 ELSE out[f]]

\* setup_agent_commands(project_path, ai_assistant, script_type, selected_model)
\* on a project whose models.json is file, whose output directory is out (kind
\* "absent", "dir" or "file") and whose command templates are templates
SetupAgentCommands(file, out, templates, ai, script_type, selected_model, cache, now, later) ==
    IF ai \notin DOMAIN agent_configs
    THEN [file |-> file, out |-> out, status |-> "skipped"]
    ELSE IF out.kind = "file"
    THEN [file |-> file, out |-> out, status |-> "raised"]
    ELSE LET dir == [kind |-> "dir", files |-> out.files]
             c == IF ai = "copilot"
                  THEN PersistConfig(file, script_type, selected_model, cache, now, later)
                  ELSE [file |-> file, ok |-> TRUE]
         IN  IF ~c.ok
             THEN [file |-> file, out |-> dir, status |-> "raised"]
             ELSE [file |-> c.file,
                   out |-> [kind |-> "dir",
                            files |-> GenerateCommands(dir.files, templates,
                                                       agent_configs[ai], script_type)],
                   status |-> "returned"]

\* the github_models values a models.json starts with
StoredGithubModels ==
    {JObj([selected_model |-> "gpt-4o", last_updated |-> IsoFormat(0), catalog_source |-> "api"]),
     JObj([selected_model |-> "gpt-4o", note |-> "kept"]),
     JOther("list")}

\* the scripts values a models.json starts with
StoredScripts ==
    {JObj(ScriptsRecord("ps", 0)),
     JObj([preferred |-> "sh", folder |-> "bash", extension |-> "sh",
           last_updated |-> IsoFormat(0), note |-> "kept"])}

\* the members of a dict: those of d that are in keys
Restrict(d, keys) == [x \in keys |-> d[x]]

\* the models.json a project starts with
ConfigFiles ==
    {JOther("absent"), JOther("corrupt"), JOther("list")}
        \cup {JObj(Restrict([github_models |-> g, scripts |-> s, custom |-> JObj([note |-> "kept"])],
                            keys)) :
                g \in StoredGithubModels, s \in StoredScripts,
                keys \in SUBSET {"github_models", "scripts", "custom"}}

\* the models cache file: absent, corrupt, or an object
ModelCaches ==
    {[k |-> "absent", source |-> "", timestamp |-> 0],
     [k |-> "corrupt", source |-> "", timestamp |-> 0],
     [k |-> "obj", source |-> "fallback", timestamp |-> 1]}

PlanTemplate == <<Piece("text"), Piece("args"), Piece("script")>>

TasksTemplate == <<Piece("script"), Piece("text"), Piece("script")>>

\* the project's command templates and output directory
CommandProjects ==
    {[templates |-> [exists |-> FALSE, files |-> EmptyDict],
      out |-> [kind |-> "absent", files |-> EmptyDict]],
     [templates |-> [exists |-> TRUE,
                     files |-> (<<"plan", ".md">> :> PlanTemplate) @@ (<<"notes", ".txt">> :> <<Piece("text")>>)],
      out |-> [kind |-> "dir", files |-> (<<"plan", ".prompt.md">> :> <<Piece("text")>>)]],
     [templates |-> [exists |-> TRUE,
                     files |-> (<<"plan", ".md">> :> PlanTemplate) @@ (<<"tasks", ".md">> :> TasksTemplate)],
      out |-> [kind |-> "absent", files |-> EmptyDict]],
     [templates |-> [exists |-> TRUE, files |-> EmptyDict],
      out |-> [kind |-> "file", files |-> EmptyDict]]}

NoCall == [ai |-> "", script |-> "", model |-> "", cache |-> [k |-> "absent", source |-> "", timestamp |-> 0]]

ConfigInit ==
    /\ cfgFile \in ConfigFiles
    /\ cfgPrev = cfgFile
    /\ \E p \in CommandProjects : cfgTemplates = p.templates /\ cfgOut = p.out
    /\ cfgCall = NoCall
    /\ cfgClock = 1
    /\ cfgStatus = "none"

\* one call of setup_agent_commands; the two readings of the clock are now and
\* later
SetupCommands ==
    /\ cfgClock < MaxClock
    /\ \E ai \in {"copilot", "claude"}, script \in {"sh", "ps"},
          model \in {"", "gpt-4o", "gpt-4.1"}, cache \in ModelCaches,
          later \in {cfgClock, cfgClock + 1} :
         LET r == SetupAgentCommands(cfgFile, cfgOut, cfgTemplates, ai, script, model,
                                     cache, cfgClock, later)
         IN  /\ cfgFile' = r.file
             /\ cfgOut' = r.out
             /\ cfgStatus' = r.status
             /\ cfgCall' = [ai |-> ai, script |-> script, model |-> model, cache |-> cache]
             /\ cfgClock' = later + 1
    /\ cfgPrev' = cfgFile
    /\ UNCHANGED cfgTemplates

ConfigParked ==
    /\ cfgFile = JOther("absent")
    /\ cfgPrev = JOther("absent")
    /\ cfgTemplates = [exists |-> FALSE, files |-> EmptyDict]
    /\ cfgOut = [kind |-> "absent", files |-> EmptyDict]
    /\ cfgCall = NoCall
    /\ cfgClock = 1
    /\ cfgStatus = "none"

----------------------------------------------------------------------------
(* Status Reporter: _collect_workflow_artifacts *)

\* the same tests with plan looked at first
NextCommand_PlanFirst(spec_exists, plan_exists, tasks_exists) ==
    IF ~plan_exists THEN "plan"
    ELSE IF ~spec_exists THEN "specify"
    ELSE IF ~tasks_exists THEN "tasks"
    ELSE "implement"

\* lines 330-337
NextCommand(spec_exists, plan_exists, tasks_exists) ==
    IF ~spec_exists THEN "specify"
    ELSE IF ~plan_exists THEN "plan"
    ELSE IF ~tasks_exists THEN "tasks"
    ELSE "implement"

\* sorted(..., key=lambda p: p.name): the names, which are numbers here, in
\* increasing order
RECURSIVE SortedNames(_)
SortedNames(S) ==
    IF S = {} THEN <<>>
    ELSE LET m == CHOOSE x \in S : \A y \in S : x <= y
         IN  <<m>> \o SortedNames(S \ {m})

\* lines 339-350
FeatureRecord(slug, e) ==
    [slug |-> slug, spec |-> e.spec, plan |-> e.plan, tasks |-> e.tasks,
     next_command |-> NextCommand(e.spec, e.plan, e.tasks),
     ready_for_implementation |-> NextCommand(e.spec, e.plan, e.tasks) = "implement"]

\* [x for x in seq if Test(x)]
RECURSIVE SelectFeatures(_, _)
SelectFeatures(seq, kind) ==
    IF seq = <<>> THEN <<>>
    ELSE LET f == Head(seq)
             keep == CASE kind = "waiting_plan" -> f.spec /\ ~f.plan
                       [] kind = "waiting_tasks" -> f.plan /\ ~f.tasks
                       [] kind = "missing_spec" -> ~f.spec
                       [] kind = "spec" -> f.spec
                       [] kind = "plan" -> f.plan
                       [] kind = "tasks" -> f.tasks
         IN  (IF keep THEN <<f>> ELSE <<>>) \o SelectFeatures(Tail(seq), kind)

\* _collect_workflow_artifacts(specify_dir)
CollectWorkflowArtifacts(dir) ==
    LET names == IF dir.specs_root
                 THEN SortedNames({n \in DOMAIN dir.entries : dir.entries[n].isdir})
                 ELSE <<>>
        features == [i \in DOMAIN names |-> FeatureRecord(names[i], dir.entries[names[i]])]
    IN  [computed |-> TRUE,
         constitution |-> dir.constitution,
         features |-> features,
         feature_total |-> Len(features),
         specs_ready |-> Len(SelectFeatures(features, "spec")),
         plans_ready |-> Len(SelectFeatures(features, "plan")),
         tasks_ready |-> Len(SelectFeatures(features, "tasks")),
         waiting_plan |-> SelectFeatures(features, "waiting_plan"),
         waiting_tasks |-> SelectFeatures(features, "waiting_tasks"),
         missing_spec |-> SelectFeatures(features, "missing_spec")]

NoSummary ==
    [computed |-> FALSE, constitution |-> FALSE, features |-> <<>>, feature_total |-> 0,
     specs_ready |-> 0, plans_ready |-> 0, tasks_ready |-> 0,
     waiting_plan |-> <<>>, waiting_tasks |-> <<>>, missing_spec |-> <<>>]

\* an entry of .specify/specs: a directory with or without spec.md, plan.md and
\* tasks.md, or something that is no directory
SpecsEntries ==
    [isdir : {TRUE}, spec : BOOLEAN, plan : BOOLEAN, tasks : BOOLEAN]
        \cup {[isdir |-> FALSE, spec |-> FALSE, plan |-> FALSE, tasks |-> FALSE]}

SpecifyDirs ==
    {[constitution |-> c, specs_root |-> FALSE, entries |-> [n \in {} |-> 0]] : c \in BOOLEAN}
        \cup {[constitution |-> c, specs_root |-> TRUE, entries |-> e] :
                c \in BOOLEAN,
                e \in UNION {[S -> SpecsEntries] : S \in SUBSET (1..MaxFeatures)}}

\* _format_stage_progress(completed, total): the text it builds and the
\* pending count the text shows (0 when it shows none)
FormatStageProgress(completed, total) ==
    IF total = 0
    THEN [text |-> IF completed = 0 THEN "not_started" ELSE "ready", missing |-> 0]
    ELSE IF completed = total
    THEN [text |-> "all_ready", missing |-> 0]
    ELSE [text |-> "pending", missing |-> total - completed]

\* a suggestion: the command it names and the features it lists (the first
\* three by slug, and whether there are more)
Suggestion(command, features) ==
    [command |-> command,
     names |-> [i \in 1..(IF Len(features) > 3 THEN 3 ELSE Len(features)) |-> features[i].slug],
     more |-> Len(features) > 3]

\* no feature counts as ready for implementation
ReadyForImpl_None(seq) == <<>>

\* [feature for feature in summary["features"] if feature["ready_for_implementation"]]
RECURSIVE ReadyForImpl(_)
ReadyForImpl(seq) ==
    IF seq = <<>> THEN <<>>
    ELSE (IF Head(seq).ready_for_implementation THEN <<Head(seq)>> ELSE <<>>)
             \o ReadyForImpl(Tail(seq))

\* _derive_followups(summary): the suggestions in the order they are appended
DeriveFollowups(summary) ==
    (IF ~summary.constitution THEN <<Suggestion("constitution", <<>>)>> ELSE <<>>)
    \o (IF summary.specs_ready = 0 THEN <<Suggestion("specify", <<>>)>> ELSE <<>>)
    \o (IF summary.missing_spec # <<>>
        THEN <<Suggestion("finish_specs", summary.missing_spec)>> ELSE <<>>)
    \o (IF summary.waiting_plan # <<>>
        THEN <<Suggestion("plan", summary.waiting_plan)>> ELSE <<>>)
    \o (IF summary.waiting_tasks # <<>>
        THEN <<Suggestion("tasks", summary.waiting_tasks)>> ELSE <<>>)
    \o (IF ReadyForImpl(summary.features) # <<>>
        THEN <<Suggestion("implement", ReadyForImpl(summary.features))>> ELSE <<>>)

\* the last follow-up instead of the first
PickPrimarySuggestion_Last(summary) ==
    LET followups == DeriveFollowups(summary)
    IN  IF followups # <<>> THEN followups[Len(followups)]
        ELSE IF summary.feature_total # 0 THEN Suggestion("all_ready", <<>>)
        ELSE Suggestion("start_first", <<>>)

\* _pick_primary_suggestion(summary)
PickPrimarySuggestion(summary) ==
    LET followups == DeriveFollowups(summary)
    IN  IF followups # <<>> THEN followups[1]
        ELSE IF summary.feature_total # 0 THEN Suggestion("all_ready", <<>>)
        ELSE Suggestion("start_first", <<>>)

NoSuggestion == Suggestion("", <<>>)

\* the summary the status command uses when there is no .specify directory
DefaultSummary ==
    [computed |-> TRUE, constitution |-> FALSE, features |-> <<>>, feature_total |-> 0,
     specs_ready |-> 0, plans_ready |-> 0, tasks_ready |-> 0,
     waiting_plan |-> <<>>, waiting_tasks |-> <<>>, missing_spec |-> <<>>]

StatusInit ==
    /\ stDir \in SpecifyDirs
    /\ stSummary = NoSummary
    /\ stPrimary = NoSuggestion

\* the status command collects the summary; a directory with nothing in it
\* stands for an empty .specify directory and for a missing one
Collect ==
    /\ ~stSummary.computed
    /\ \E is_specify_project \in
            (IF stDir.constitution \/ stDir.specs_root THEN {TRUE} ELSE BOOLEAN) :
          stSummary' = IF is_specify_project THEN CollectWorkflowArtifacts(stDir)
                       ELSE DefaultSummary
    /\ UNCHANGED <<stDir, stPrimary>>

\* the status command picks the primary suggestion from the summary
Suggest ==
    /\ stSummary.computed
    /\ stPrimary = NoSuggestion
    /\ stPrimary' = PickPrimarySuggestion(stSummary)
    /\ UNCHANGED <<stDir, stSummary>>

StatusParked ==
    /\ stDir = [constitution |-> FALSE, specs_root |-> FALSE, entries |-> [n \in {} |-> 0]]
    /\ stSummary = NoSummary
    /\ stPrimary = NoSuggestion

----------------------------------------------------------------------------
(* The init command *)

AI_CHOICES == {"copilot"}

SCRIPT_TYPE_CHOICES == {"sh", "ps"}

GITHUB_MODEL_FALLBACKS == {"gpt-4o", "gpt-4.1", "claude-sonnet-4.5"}

\* StepTracker.add: a step list is a sequence of [key, status]
TrackerAdd(steps, key) ==
    IF \E i \in DOMAIN steps : steps[i].key = key
    THEN steps
    ELSE Append(steps, [key |-> key, status |-> "pending"])

\* StepTracker._update, behind start, complete, error and skip
TrackerUpdate(steps, key, status) ==
    IF \E i \in DOMAIN steps : steps[i].key = key
    THEN [i \in DOMAIN steps |->
             IF steps[i].key = key THEN [key |-> key, status |-> status] ELSE steps[i]]
    ELSE Append(steps, [key |-> key, status |-> status])

\* a sequence of tracker calls, each <<operation, key>>
RECURSIVE TrackerRun(_, _)
TrackerRun(steps, calls) ==
    IF calls = <<>> THEN steps
    ELSE LET c == Head(calls)
             next == CASE c[1] = "add" -> TrackerAdd(steps, c[2])
                       [] c[1] = "start" -> TrackerUpdate(steps, c[2], "running")
                       [] c[1] = "complete" -> TrackerUpdate(steps, c[2], "done")
                       [] c[1] = "error" -> TrackerUpdate(steps, c[2], "error")
                       [] c[1] = "skip" -> TrackerUpdate(steps, c[2], "skipped")
         IN  TrackerRun(next, Tail(calls))

\* fetch_github_models(github_token): the catalog it returns, whether it sent a
\* request, and whether it wrote the cache file.  cache is "fresh" (younger than
\* an hour, with models), or anything else; api is how the request ends.
FetchGithubModels(cache, api, writable) ==
    IF cache = "fresh"
    THEN [models |-> GITHUB_MODEL_FALLBACKS, request |-> FALSE, wrote |-> FALSE]
    ELSE [models |-> IF api = "models"
                     THEN {"phi-4"} \cup GITHUB_MODEL_FALLBACKS
                     ELSE GITHUB_MODEL_FALLBACKS,
          request |-> TRUE, wrote |-> writable]

\* the tracker calls of download_and_extract_template up to the point where it
\* ends; outcome names the step that fails, flat whether the archive has one
\* top-level directory
DownloadCalls(here, outcome, flat) ==
    LET fetched == <<<<"start", "fetch">>, <<"complete", "fetch">>, <<"add", "download">>,
                     <<"complete", "download">>, <<"add", "extract">>, <<"start", "extract">>>>
        listed == fetched \o <<<<"start", "zip-list">>, <<"complete", "zip-list">>>>
        summed == listed \o <<<<"start", "extracted-summary">>, <<"complete", "extracted-summary">>>>
        flattened == IF flat
                     THEN summed \o <<<<"add", "flatten">>, <<"complete", "flatten">>>>
                     ELSE summed
        failed == <<<<"error", "extract">>, <<"add", "cleanup">>, <<"complete", "cleanup">>>>
    IN  CASE outcome = "fetch" -> <<<<"start", "fetch">>, <<"error", "fetch">>>>
          [] outcome \in {"mkdir", "badzip"} -> fetched \o failed
          [] outcome = "extract" -> listed \o failed
          [] outcome = "flatten" -> summed \o failed
          [] outcome = "copy" -> flattened \o failed
          [] outcome = "none" ->
                flattened \o <<<<"complete", "extract">>, <<"add", "cleanup">>, <<"complete", "cleanup">>>>

\* the outcomes download_and_extract_template can have in a mode
DownloadFailures(here) ==
    IF here THEN {"none", "fetch", "badzip", "extract", "copy"}
    ELSE {"none", "fetch", "mkdir", "badzip", "extract", "flatten"}

\* the tracker calls of copy_local_template; outcome names the step that fails
LocalCalls(outcome) ==
    CASE outcome = "templates" -> <<>>
      [] outcome = "copy" -> <<<<"start", "copy">>, <<"error", "copy">>>>
      [] outcome = "setup" ->
            <<<<"start", "copy">>, <<"complete", "copy">>, <<"add", "agent-setup">>, <<"error", "copy">>>>
      [] outcome = "none" ->
            <<<<"start", "copy">>, <<"complete", "copy">>, <<"add", "agent-setup">>,
              <<"complete", "agent-setup">>>>

\* the components copy_local_template runs, in order
LocalEvents(outcome) ==
    CASE outcome \in {"templates", "copy"} -> <<>>
      [] outcome = "setup" -> <<"materialize", "commands">>
      [] outcome = "none" -> <<"materialize", "commands">>

\* the components download_and_extract_template runs, in order
DownloadEvents(outcome) ==
    IF outcome = "none" THEN <<"materialize">> ELSE <<>>

NoOptions ==
    [here |-> FALSE, local |-> FALSE, no_git |-> FALSE, should_init_git |-> FALSE,
     ai |-> "", model |-> "", script |-> ""]

InitInit ==
    /\ iPc = "args"
    /\ iOpt = NoOptions
    /\ iTracker = <<>>
    /\ iTrace = <<>>
    /\ iExit = -1
    /\ iWorld \in [project : BOOLEAN, cwd_items : BOOLEAN, request : {FALSE}, cache_written : {FALSE}]

Exit(code) ==
    /\ iPc' = "exit"
    /\ iExit' = code

\* lines 1628-1640: '.' shorthand and argument validation
InitArgs ==
    /\ iPc = "args"
    /\ \E name \in {"", ".", "proj"}, hereFlag \in BOOLEAN, local \in BOOLEAN, no_git \in BOOLEAN :
         LET here == hereFlag \/ name = "."
             project_name == IF name = "." THEN "" ELSE name
         IN  IF (here /\ project_name # "") \/ (~here /\ project_name = "")
             THEN Exit(1) /\ UNCHANGED iOpt
             ELSE /\ iPc' = "dir"
                  /\ iOpt' = [iOpt EXCEPT !.here = here, !.local = local, !.no_git = no_git]
                  /\ UNCHANGED iExit
    /\ UNCHANGED <<iTracker, iTrace, iWorld>>

\* lines 1642-1673: the project directory
InitDir ==
    /\ iPc = "dir"
    /\ \E force \in BOOLEAN, response \in BOOLEAN :
         IF iOpt.here
         THEN IF iWorld.cwd_items /\ ~force /\ ~response
              THEN Exit(0)
              ELSE iPc' = "tools" /\ UNCHANGED iExit
         ELSE IF iWorld.project
              THEN Exit(1)
              ELSE iPc' = "tools" /\ UNCHANGED iExit
    /\ UNCHANGED <<iOpt, iTracker, iTrace, iWorld>>

\* lines 1691-1697: should_init_git
InitTools ==
    /\ iPc = "tools"
    /\ \E git \in BOOLEAN :
         iOpt' = [iOpt EXCEPT !.should_init_git = ~iOpt.no_git /\ git]
    /\ iPc' = "ai"
    /\ UNCHANGED <<iTracker, iTrace, iExit, iWorld>>

\* lines 1699-1715: the assistant
InitAi ==
    /\ iPc = "ai"
    /\ \E ai \in {"", "copilot", "claude"} :
         IF ai # "" /\ ai \notin AI_CHOICES
         THEN Exit(1) /\ UNCHANGED iOpt
         ELSE /\ iOpt' = [iOpt EXCEPT !.ai = IF ai # "" THEN ai ELSE "copilot"]
              /\ iPc' = "model"
              /\ UNCHANGED iExit
    /\ UNCHANGED <<iTracker, iTrace, iWorld>>

\* lines 1717-1762: the model; the catalog is fetched before --model is checked
InitModel ==
    /\ iPc = "model"
    /\ \E model \in {"", "gpt-4o", "nope"}, cache \in {"fresh", "stale"},
          api \in {"models", "none", "error"}, writable \in BOOLEAN, tty \in BOOLEAN :
         LET f == FetchGithubModels(cache, api, writable)
         IN  /\ iWorld' = [iWorld EXCEPT !.request = @ \/ f.request,
                                         !.cache_written = @ \/ f.wrote]
             /\ IF model # "" /\ model \notin f.models
                THEN Exit(1) /\ UNCHANGED iOpt
                ELSE /\ \E chosen \in (IF model # "" THEN {model}
                                       ELSE IF tty THEN f.models ELSE {"gpt-4o"}) :
                          iOpt' = [iOpt EXCEPT !.model = chosen]
                     /\ iPc' = "script"
                     /\ UNCHANGED iExit
    /\ UNCHANGED <<iTracker, iTrace>>

\* lines 1768-1786: the script type
InitScript ==
    /\ iPc = "script"
    /\ \E script \in {"", "sh", "ps", "fish"}, chosen \in SCRIPT_TYPE_CHOICES :
         IF script # "" /\ script \notin SCRIPT_TYPE_CHOICES
         THEN Exit(1) /\ UNCHANGED iOpt
         ELSE /\ iOpt' = [iOpt EXCEPT !.script = IF script # "" THEN script ELSE chosen]
              /\ iPc' = "tracker"
              /\ UNCHANGED iExit
    /\ UNCHANGED <<iTracker, iTrace, iWorld>>

\* lines 1795-1817: the tracker and its steps
InitTrackerSetup ==
    /\ iPc = "tracker"
    /\ iTracker' = TrackerRun(<<>>,
          <<<<"add", "precheck">>, <<"complete", "precheck">>,
            <<"add", "ai-select">>, <<"complete", "ai-select">>,
            <<"add", "script-select">>, <<"complete", "script-select">>,
            <<"add", "fetch">>, <<"add", "download">>, <<"add", "extract">>,
            <<"add", "zip-list">>, <<"add", "extracted-summary">>, <<"add", "workspace">>,
            <<"add", "chmod">>, <<"add", "cleanup">>, <<"add", "git">>, <<"add", "final">>>>)
    /\ iPc' = "materialize"
    /\ UNCHANGED <<iOpt, iTrace, iExit, iWorld>>

\* lines 1828-1829: copy_local_template, which runs setup_agent_commands
InitLocal ==
    /\ iPc = "materialize"
    /\ iOpt.local
    /\ \E outcome \in {"none", "templates", "copy", "setup"} :
         /\ iTracker' = TrackerRun(iTracker, LocalCalls(outcome))
         /\ iTrace' = iTrace \o LocalEvents(outcome)
         /\ iWorld' = [iWorld EXCEPT !.project = @ \/ outcome # "templates"]
         /\ iPc' = IF outcome = "none" THEN "sync" ELSE "failed"
    /\ UNCHANGED <<iOpt, iExit>>

\* lines 1830-1831: download_and_extract_template, which runs no setup_agent_commands
InitDownload ==
    /\ iPc = "materialize"
    /\ ~iOpt.local
    /\ \E outcome \in DownloadFailures(iOpt.here), flat \in BOOLEAN :
         /\ iTracker' = TrackerRun(iTracker, DownloadCalls(iOpt.here, outcome, flat))
         /\ iTrace' = iTrace \o DownloadEvents(outcome)
         /\ iWorld' = [iWorld EXCEPT !.project = IF iOpt.here \/ outcome = "fetch"
                                                  THEN @ ELSE outcome = "none",
                                     !.request = TRUE]
         /\ iPc' = IF outcome = "none" THEN "sync" ELSE "failed"
    /\ UNCHANGED <<iOpt, iExit>>

\* lines 1833-1842: sync_workspace_config
InitSync ==
    /\ iPc = "sync"
    /\ \E r \in {"done", "skipped", "error"} :
         iTracker' = TrackerRun(iTracker,
                                <<<<"start", "workspace">>,
                                  <<CASE r = "done" -> "complete" [] r = "skipped" -> "skip"
                                      [] r = "error" -> "error", "workspace">>>>)
    /\ iTrace' = Append(iTrace, "sync")
    /\ iPc' = "chmod"
    /\ UNCHANGED <<iOpt, iExit, iWorld>>

\* line 1845: ensure_executable_scripts
InitChmod ==
    /\ iPc = "chmod"
    /\ \E nt \in BOOLEAN, scripts \in BOOLEAN, failures \in BOOLEAN :
         iTracker' = IF nt \/ ~scripts
                     THEN iTracker
                     ELSE TrackerRun(iTracker,
                                     <<<<"add", "chmod">>,
                                       <<IF failures THEN "error" ELSE "complete", "chmod">>>>)
    /\ iPc' = "git"
    /\ UNCHANGED <<iOpt, iTrace, iExit, iWorld>>

\* lines 1847-1860: the git step
InitGit ==
    /\ iPc = "git"
    /\ \E repo \in BOOLEAN, inited \in BOOLEAN :
         iTracker' =
            IF iOpt.no_git
            THEN TrackerRun(iTracker, <<<<"skip", "git">>>>)
            ELSE TrackerRun(iTracker,
                            <<<<"start", "git">>,
                              <<IF repo THEN "complete"
                                ELSE IF iOpt.should_init_git
                                THEN (IF inited THEN "complete" ELSE "error")
                                ELSE "skip", "git">>>>)
    /\ iPc' = "final"
    /\ UNCHANGED <<iOpt, iTrace, iExit, iWorld>>

\* line 1862: the run succeeded
InitFinal ==
    /\ iPc = "final"
    /\ iTracker' = TrackerRun(iTracker, <<<<"complete", "final">>>>)
    /\ iPc' = "done"
    /\ iExit' = 0
    /\ UNCHANGED <<iOpt, iTrace, iWorld>>

\* lines 1863-1877: the handler of an exception of the pipeline
InitFailed ==
    /\ iPc = "failed"
    /\ iTracker' = TrackerRun(iTracker, <<<<"error", "final">>>>)
    /\ iWorld' = [iWorld EXCEPT !.project = IF ~iOpt.here THEN FALSE ELSE @]
    /\ Exit(1)
    /\ UNCHANGED <<iOpt, iTrace>>

InitParked ==
    /\ iPc = "args"
    /\ iOpt = NoOptions
    /\ iTracker = <<>>
    /\ iTrace = <<>>
    /\ iExit = -1
    /\ iWorld = [project |-> FALSE, cwd_items |-> FALSE, request |-> FALSE, cache_written |-> FALSE]

----------------------------------------------------------------------------
(* Model catalog: fetch_github_models and its cache file, as list-models   *)
(* calls it.  A model map is the set of its ids; an id is the sequence of  *)
(* its parts between slashes; time is counted in hours.                    *)

AbsentCache == [k |-> "absent", models |-> {}, source |-> "", mtime |-> 0]

CorruptCache == [k |-> "corrupt", models |-> {}, source |-> "", mtime |-> 0]

\* any(c.isalpha() for c in simple_id)
HasLetter(s) == s \notin {"", "123"}

\* lines 104-114: the ids taken from the body's list; a member that is no
\* dict makes model.get raise
RECURSIVE ApiModels(_)
ApiModels(items) ==
    IF items = <<>> THEN [ok |-> TRUE, models |-> {}]
    ELSE LET model == Head(items)
             rest  == ApiModels(Tail(items))
             simple_id == model.id[Len(model.id)]
         IN  IF ~model.dict THEN [ok |-> FALSE, models |-> {}]
             ELSE IF Len(model.id) > 1 /\ simple_id # "" /\ HasLetter(simple_id)
             THEN [ok |-> rest.ok, models |-> {simple_id} \cup rest.models]
             ELSE rest

\* the API's models alone
CombinedModels_ApiOnly(api_models) == api_models

\* combined_models = {**api_models, **fallback_models}
CombinedModels(api_models) == api_models \cup GITHUB_MODEL_FALLBACKS

\* the cache file after a write at time now; a write that fails is swallowed
WriteCache(cache, use_cache, writable, models, source, now) ==
    IF use_cache /\ writable
    THEN [k |-> "obj", models |-> models, source |-> source, mtime |-> now]
    ELSE cache

\* fetch_github_models(github_token, use_cache): cache is the cache file, api
\* the way the request ends (status "200" with a body, another status, or
\* "exception"), writable whether the cache file can be written
FetchCatalog(cache, now, api, use_cache, writable) ==
    IF use_cache /\ cache.k = "obj" /\ now - cache.mtime < 1 /\ cache.models # {}
    THEN [models |-> cache.models, request |-> FALSE, cache |-> cache]
    ELSE LET parsed == IF api.body.list THEN ApiModels(api.body.items)
                       ELSE [ok |-> TRUE, models |-> {}]
         IN  IF api.status = "200" /\ parsed.ok
             THEN [models |-> CombinedModels(parsed.models), request |-> TRUE,
                   cache |-> WriteCache(cache, use_cache, writable,
                                        CombinedModels(parsed.models),
                                        IF parsed.models # {} THEN "api" ELSE "fallback", now)]
             ELSE [models |-> GITHUB_MODEL_FALLBACKS, request |-> TRUE,
                   cache |-> WriteCache(cache, use_cache, writable,
                                        GITHUB_MODEL_FALLBACKS, "fallback", now)]

\* the members of a body: a model with a publisher, one without, one whose
\* simple id has no letter, and a member that is no dict
ApiItems ==
    {[dict |-> TRUE, id |-> <<"microsoft", "phi-4">>],
     [dict |-> TRUE, id |-> <<"phi-4">>],
     [dict |-> TRUE, id |-> <<"openai", "123">>],
     [dict |-> FALSE, id |-> <<"">>]}

NoBody == [list |-> FALSE, items |-> <<>>]

ApiAnswers ==
    {[status |-> "200", body |-> NoBody], [status |-> "500", body |-> NoBody],
     [status |-> "exception", body |-> NoBody]}
    \cup {[status |-> "200", body |-> [list |-> TRUE, items |-> s]] :
            s \in UNION {[1..n -> ApiItems] : n \in 0..MaxBody}}

NoFetch ==
    [called |-> FALSE, use_cache |-> FALSE, status |-> "", request |-> FALSE,
     models |-> {}, before |-> AbsentCache, exit |-> -1]

\* the cache file is absent or unreadable before the tool ever wrote it
CatalogInit ==
    /\ kCache \in {AbsentCache, CorruptCache}
    /\ kNow = 0
    /\ kLast = NoFetch

\* specify list-models [--no-cache]
ListModels ==
    \E api \in ApiAnswers, no_cache \in BOOLEAN, writable \in BOOLEAN :
        LET r == FetchCatalog(kCache, kNow, api, ~no_cache, writable)
        IN  /\ kCache' = r.cache
            /\ kLast' = [called |-> TRUE, use_cache |-> ~no_cache, status |-> api.status,
                         request |-> r.request, models |-> r.models, before |-> kCache,
                         exit |-> IF r.models = {} THEN 1 ELSE 0]
            /\ UNCHANGED kNow

\* specify list-models --clear-cache
ClearCache ==
    /\ kCache.k # "absent"
    /\ kCache' = AbsentCache
    /\ kLast' = [NoFetch EXCEPT !.before = kCache]
    /\ UNCHANGED kNow

\* an hour passes
HourPasses ==
    /\ kNow < MaxHours
    /\ kNow' = kNow + 1
    /\ UNCHANGED <<kCache, kLast>>

CatalogParked ==
    /\ kCache = AbsentCache
    /\ kNow = 0
    /\ kLast = NoFetch

----------------------------------------------------------------------------
(* StepTracker and its refresh callback *)

TrackerOps == {"add", "start", "complete", "error", "skip"}

\* whether the operation reaches _maybe_refresh: add does only for a new key
ReachesRefresh(steps, op, key) ==
    op # "add" \/ ~\E i \in DOMAIN steps : steps[i].key = key

\* _maybe_refresh without the try
MaybeRefresh_NoTry(attached, cb) ==
    [called |-> attached, propagates |-> attached /\ cb = "raises"]

\* _maybe_refresh: the callback is called when one is attached, and what it
\* raises is swallowed; cb is how the callback ends ("returns" or "raises")
MaybeRefresh(attached, cb) ==
    [called |-> attached, propagates |-> FALSE]

NoOp ==
    [n |-> 0, op |-> "", key |-> "", cb |-> "", attached |-> FALSE, before |-> <<>>,
     seen |-> 0, raised |-> FALSE]

TrackerInit ==
    /\ tkSteps = <<>>
    /\ tkAttached = FALSE
    /\ tkRefreshes = <<>>
    /\ tkOp = NoOp

\* attach_refresh(cb)
AttachRefresh ==
    /\ ~tkAttached
    /\ tkAttached' = TRUE
    /\ UNCHANGED <<tkSteps, tkRefreshes, tkOp>>

\* one call of add, start, complete, error or skip
TrackerCall ==
    /\ tkOp.n < MaxOps
    /\ \E op \in TrackerOps, key \in {"a", "b"}, cb \in {"returns", "raises"} :
         LET after   == TrackerRun(tkSteps, <<<<op, key>>>>)
             reaches == ReachesRefresh(tkSteps, op, key)
             r       == MaybeRefresh(tkAttached, cb)
         IN  /\ tkSteps' = after
             /\ tkRefreshes' = IF reaches /\ r.called
                               THEN Append(tkRefreshes, after) ELSE tkRefreshes
             /\ tkOp' = [n |-> tkOp.n + 1, op |-> op, key |-> key, cb |-> cb,
                         attached |-> tkAttached, before |-> tkSteps,
                         seen |-> Len(tkRefreshes), raised |-> reaches /\ r.propagates]
    /\ UNCHANGED tkAttached

TrackerParked ==
    /\ tkSteps = <<>>
    /\ tkAttached = FALSE
    /\ tkRefreshes = <<>>
    /\ tkOp = NoOp

----------------------------------------------------------------------------
(* Credentials: _github_token, _github_auth_headers and the three requests *)
(* that carry them.  A string is a sequence of characters; an optional     *)
(* string (str | None) is a record that says whether it is set.            *)

None == [some |-> FALSE, v |-> <<>>]

Str(s) == [some |-> TRUE, v |-> s]

\* Python's truth value of an optional string
Truthy(x) == x.some /\ x.v # <<>>

\* str.strip(): leading and trailing whitespace removed
RECURSIVE Strip(_)
Strip(s) ==
    IF s = <<>> THEN s
    ELSE IF Head(s) = " " THEN Strip(Tail(s))
    ELSE IF s[Len(s)] = " " THEN Strip(SubSeq(s, 1, Len(s) - 1))
    ELSE s

\* ((cli_token or os.getenv("GH_TOKEN") or os.getenv("GITHUB_TOKEN") or "").strip()) or None
GithubToken(cli_token, env) ==
    LET picked == IF Truthy(cli_token) THEN cli_token.v
                  ELSE IF Truthy(env.GH_TOKEN) THEN env.GH_TOKEN.v
                  ELSE IF Truthy(env.GITHUB_TOKEN) THEN env.GITHUB_TOKEN.v
                  ELSE <<>>
        token  == Strip(picked)
    IN  IF token # <<>> THEN Str(token) ELSE None

\* {"Authorization": f"Bearer {token}"} if token else {}
GithubAuthHeaders(cli_token, env) ==
    LET token == GithubToken(cli_token, env)
    IN  IF Truthy(token)
        THEN [h \in {"Authorization"} |-> <<"B", "e", "a", "r", "e", "r", " ">> \o token.v]
        ELSE [h \in {} |-> <<>>]

\* the values --github-token and the two variables take: unset, empty, blank,
\* a token, a token with whitespace around it
TokenValues ==
    {None, Str(<<>>), Str(<<" ">>), Str(<<"a">>), Str(<<" ", "b", " ">>)}

AuthInit ==
    /\ aEnv \in [cli : TokenValues, GH_TOKEN : TokenValues, GITHUB_TOKEN : TokenValues]
    /\ aRequests = <<>>

Sent(to) == \E i \in 1..Len(aRequests) : aRequests[i].to = to

Send(to, headers) ==
    /\ aRequests' = Append(aRequests, [to |-> to, headers |-> headers])
    /\ UNCHANGED aEnv

\* fetch_github_models: client.get of the model catalog
CatalogRequest ==
    /\ aRequests = <<>>
    /\ Send("catalog", GithubAuthHeaders(aEnv.cli, aEnv)
                         @@ [h \in {"Accept"} |-> <<"json">>]
                         @@ [h \in {"X-GitHub-Api-Version"} |-> <<"2022-11-28">>])

\* fetch_latest_release_metadata: client.get of releases/latest
ReleaseRequest ==
    /\ ~Sent("release")
    /\ Send("release", GithubAuthHeaders(aEnv.cli, aEnv))

\* download_template_from_github: client.stream of the asset, after the release
\* request
AssetRequest ==
    /\ Sent("release")
    /\ ~Sent("asset")
    /\ Send("asset", GithubAuthHeaders(aEnv.cli, aEnv))

AuthParked ==
    /\ aEnv = [cli |-> None, GH_TOKEN |-> None, GITHUB_TOKEN |-> None]
    /\ aRequests = <<>>

----------------------------------------------------------------------------
(* Specifications: one per component *)

SyncNext == Sync /\ UNCHANGED <<matVars, fetchVars, cfgVars, statusVars, initVars, authVars, catalogVars, trackerVars>>

MatNext == Materialize /\ UNCHANGED <<syncVars, fetchVars, cfgVars, statusVars, initVars, authVars, catalogVars, trackerVars>>

FetchNext == Fetch /\ UNCHANGED <<syncVars, matVars, cfgVars, statusVars, initVars, authVars, catalogVars, trackerVars>>

ConfigNext == SetupCommands /\ UNCHANGED <<syncVars, matVars, fetchVars, statusVars, initVars, authVars, catalogVars, trackerVars>>

notStatus == <<syncVars, matVars, fetchVars, cfgVars, initVars, authVars, catalogVars, trackerVars>>

StatusNext ==
    \/ Collect /\ UNCHANGED notStatus
    \/ Suggest /\ UNCHANGED notStatus

notInit == <<syncVars, matVars, fetchVars, cfgVars, statusVars, authVars, catalogVars, trackerVars>>

InitNext ==
    \/ InitArgs /\ UNCHANGED notInit
    \/ InitDir /\ UNCHANGED notInit
    \/ InitTools /\ UNCHANGED notInit
    \/ InitAi /\ UNCHANGED notInit
    \/ InitModel /\ UNCHANGED notInit
    \/ InitScript /\ UNCHANGED notInit
    \/ InitTrackerSetup /\ UNCHANGED notInit
    \/ InitLocal /\ UNCHANGED notInit
    \/ InitDownload /\ UNCHANGED notInit
    \/ InitSync /\ UNCHANGED notInit
    \/ InitChmod /\ UNCHANGED notInit
    \/ InitGit /\ UNCHANGED notInit
    \/ InitFinal /\ UNCHANGED notInit
    \/ InitFailed /\ UNCHANGED notInit

SyncStart ==
    SyncInit /\ MatParked /\ FetchParked /\ ConfigParked /\ StatusParked /\ InitParked /\ AuthParked /\ CatalogParked /\ TrackerParked

SpecSync == SyncStart /\ [][SyncNext]_vars

MatStart ==
    MatInit /\ SyncParked /\ FetchParked /\ ConfigParked /\ StatusParked /\ InitParked /\ AuthParked /\ CatalogParked /\ TrackerParked

SpecMat == MatStart /\ [][MatNext]_vars

FetchStart ==
    FetchInit /\ SyncParked /\ MatParked /\ ConfigParked /\ StatusParked /\ InitParked /\ AuthParked /\ CatalogParked /\ TrackerParked

SpecFetch == FetchStart /\ [][FetchNext]_vars

ConfigStart ==
    ConfigInit /\ SyncParked /\ MatParked /\ FetchParked /\ StatusParked /\ InitParked /\ AuthParked /\ CatalogParked /\ TrackerParked

SpecConfig == ConfigStart /\ [][ConfigNext]_vars

StatusStart ==
    StatusInit /\ SyncParked /\ MatParked /\ FetchParked /\ ConfigParked /\ InitParked /\ AuthParked /\ CatalogParked /\ TrackerParked

SpecStatus == StatusStart /\ [][StatusNext]_vars

InitStart ==
    InitInit /\ SyncParked /\ MatParked /\ FetchParked /\ ConfigParked /\ StatusParked /\ AuthParked /\ CatalogParked /\ TrackerParked

SpecInit == InitStart /\ [][InitNext]_vars

notAuth == <<syncVars, matVars, fetchVars, cfgVars, statusVars, initVars, catalogVars, trackerVars>>

AuthNext ==
    \/ CatalogRequest /\ UNCHANGED notAuth
    \/ ReleaseRequest /\ UNCHANGED notAuth
    \/ AssetRequest /\ UNCHANGED notAuth

AuthStart ==
    AuthInit /\ SyncParked /\ MatParked /\ FetchParked /\ ConfigParked /\ StatusParked /\ InitParked /\ CatalogParked /\ TrackerParked

SpecAuth == AuthStart /\ [][AuthNext]_vars

notCatalog == <<syncVars, matVars, fetchVars, cfgVars, statusVars, initVars, authVars, trackerVars>>

CatalogNext ==
    \/ ListModels /\ UNCHANGED notCatalog
    \/ ClearCache /\ UNCHANGED notCatalog
    \/ HourPasses /\ UNCHANGED notCatalog

CatalogStart ==
    CatalogInit /\ SyncParked /\ MatParked /\ FetchParked /\ ConfigParked /\ StatusParked
        /\ InitParked /\ AuthParked /\ TrackerParked

SpecCatalog == CatalogStart /\ [][CatalogNext]_vars

notTracker == <<syncVars, matVars, fetchVars, cfgVars, statusVars, initVars, authVars, catalogVars>>

TrackerNext ==
    \/ AttachRefresh /\ UNCHANGED notTracker
    \/ TrackerCall /\ UNCHANGED notTracker

TrackerStart ==
    TrackerInit /\ SyncParked /\ MatParked /\ FetchParked /\ ConfigParked /\ StatusParked
        /\ InitParked /\ AuthParked /\ CatalogParked

SpecTracker == TrackerStart /\ [][TrackerNext]_vars

----------------------------------------------------------------------------
\* C1: workspace synchronization never overwrites or modifies a file that
\* already exists under the workspace root: every file of the workspace before
\* the call is a file with the same content after it, whatever the project holds
\* at that path.
C1_SyncNeverOverwrites ==
    \A p \in DOMAIN sWorkspace0 :
        sWorkspace0[p].t = "file" => (IsFile(sWorkspace, p) /\ sWorkspace[p] = sWorkspace0[p])

\* a call that copied something, with a file that is in both trees with
\* different contents
C1_Witness ==
    /\ sResult.status = "returned"
    /\ sResult.changed
    /\ \E p \in DOMAIN sWorkspace0 \cap DOMAIN sProject :
         /\ Len(p) > 1
         /\ sWorkspace0[p].t = "file"
         /\ sProject[p].t = "file"
         /\ sProject[p].c # sWorkspace0[p].c

----------------------------------------------------------------------------
\* the archive's effective (post-flatten) tree: what is below source_dir, by
\* its path relative to source_dir
EffectiveTree(arch) ==
    LET s == SourceDir(arch)
    IN  [p \in {SubSeq(q, Len(s) + 1, Len(q)) : q \in Under(arch, s)} |-> arch[s \o p]]

\* C2: in merge mode, every file that was in the destination before the run and
\* whose path is not a path of the archive's effective tree is still there with
\* the same content when download_and_extract_template has returned.
C2_MergeKeepsOtherFiles ==
    (mHere /\ mResult.status = "ok") =>
        \A p \in DOMAIN mCwd0 :
            (mCwd0[p].t = "file" /\ p \notin DOMAIN EffectiveTree(mArchive))
                => (p \in DOMAIN mCwd /\ mCwd[p] = mCwd0[p])

\* C3: in merge mode, after a merge that returned, every file path of the
\* archive's effective tree is a file of the destination with the archive's
\* content.
C3_MergeOverwritesFiles ==
    (mHere /\ mResult.status = "ok") =>
        \A p \in DOMAIN EffectiveTree(mArchive) :
            EffectiveTree(mArchive)[p].t = "file"
                => (IsFile(mCwd, p) /\ mCwd[p] = EffectiveTree(mArchive)[p])

\* C4: flatten is transparent: when the archive's top level is exactly one
\* directory, a run that returned leaves the tree that a run on the archive
\* with that directory's contents at top level leaves, from the same start.
C4_FlattenTransparent ==
    (mResult.status = "ok" /\ SingleRootDir(mArchive, <<>>)) =>
        \A o1 \in Orders, o2 \in Orders :
            LET b == DownloadAndExtract(mCwd0, mHere, EffectiveTree(mArchive), mRelease,
                                        "copilot", "sh", "ok", "ok", "none", o1, o2)
            IN  b.status = "ok" /\ b.fs = mCwd

\* whether models.json holds an object under key
StoredRecord(file, key) ==
    file.k = "obj" /\ key \in DOMAIN file.v /\ file.v[key].k = "obj"

C6_NextCommandPrecedence ==
    stSummary.computed =>
        /\ \A n \in DOMAIN stDir.entries :
               stDir.entries[n].isdir =>
                   Cardinality({i \in DOMAIN stSummary.features : stSummary.features[i].slug = n}) = 1
        /\ \A i \in DOMAIN stSummary.features :
               LET f == stSummary.features[i]
                   e == stDir.entries[f.slug]
               IN  /\ e.isdir
                   /\ f.next_command =
                          CASE ~e.spec -> "specify"
                            [] e.spec /\ ~e.plan -> "plan"
                            [] e.spec /\ e.plan /\ ~e.tasks -> "tasks"
                            [] e.spec /\ e.plan /\ e.tasks -> "implement"
                   /\ f.ready_for_implementation = (f.next_command = "implement")

\* a summary with a feature that has plan.md and tasks.md but no spec.md, beside
\* a feature that is ready
C6_Witness ==
    /\ stSummary.computed
    /\ \E i, j \in DOMAIN stSummary.features :
         /\ ~stSummary.features[i].spec
         /\ stSummary.features[i].plan
         /\ stSummary.features[i].tasks
         /\ stSummary.features[i].next_command = "specify"
         /\ stSummary.features[j].ready_for_implementation

\* C7: in a run of init that ended with exit code 0, setup_agent_commands ran
\* after the project tree was materialized and before sync_workspace_config.
C7_CommandsBeforeSync ==
    (iPc = "done" /\ iExit = 0) =>
        \E i, j, k \in DOMAIN iTrace :
            /\ i < j
            /\ j < k
            /\ iTrace[i] = "materialize"
            /\ iTrace[j] = "commands"
            /\ iTrace[k] = "sync"

\* whether an asset name is one the call asks for, as the claim words it
NameAsked(name, ai, st) ==
    Contains(NameTokens(name), <<"spec-kit-template", ai, st>>)
        /\ NameTokens(name)[Len(NameTokens(name))] = ".zip"

\* C8: when the release was fetched and no asset name contains the pattern and
\* ends with .zip, the run ends with exit code 1 and a message that names the
\* pattern, and nothing is written: no archive file, no project directory.
C8_NoAssetFailsClean ==
    (/\ mResult.status # "none"
     /\ mResult.stage # "release"
     /\ \A i \in DOMAIN mRelease.assets : ~NameAsked(mRelease.assets[i].name, "copilot", "sh"))
        => /\ mResult.status = "exit1"
           /\ mResult.message.expected = <<"spec-kit-template", "copilot", "sh">>
           /\ mCwd = mCwd0

\* a run that found other assets only
C8_Witness ==
    /\ mResult.status = "exit1"
    /\ mResult.stage = "no_asset"
    /\ Len(mRelease.assets) > 0
    /\ ~mHere
    /\ ~Exists(mCwd, <<"proj">>)

\* C9: a fetch that returned selected the first asset, in list order, whose name
\* contains the pattern and ends with .zip: filename, size and URL are that
\* asset's, the release is the release's tag_name, and the archive is the file
\* of that name in download_dir.
C9_FirstMatchSelected ==
    fResult.status = "ok" =>
        \E i \in DOMAIN fRelease.assets :
            /\ NameAsked(fRelease.assets[i].name, fRequest.ai, fRequest.st)
            /\ \A j \in 1..(i - 1) : ~NameAsked(fRelease.assets[j].name, fRequest.ai, fRequest.st)
            /\ fResult.meta = [filename |-> fRelease.assets[i].name,
                               size |-> fRelease.assets[i].size,
                               release |-> fRelease.tag_name,
                               asset_url |-> fRelease.assets[i].browser_download_url]
            /\ fResult.zip = <<fRelease.assets[i].name>>
            /\ fDir[fResult.zip] = ArchiveFile

\* a fetch that returned with two different matching assets in the list
C9_Witness ==
    /\ fResult.status = "ok"
    /\ Len(fRelease.assets) = 2
    /\ fRelease.assets[1] # fRelease.assets[2]
    /\ \A i \in {1, 2} : NameAsked(fRelease.assets[i].name, fRequest.ai, fRequest.st)

C11_ArchiveRemoved ==
    mResult.downloaded => ~(mResult.zip \in DOMAIN mCwd)

\* a merge run that failed while copying, after the archive was downloaded
C11_Witness ==
    /\ mResult.downloaded
    /\ mHere
    /\ mResult.at = "copy"
    /\ mResult.zip = <<ZipName>>
    /\ ~Exists(mCwd0, <<ZipName>>)
    /\ ~Exists(mCwd, <<ZipName>>)

\* C12: when the asset download fails (status other than 200, or an error while
\* the body is streamed into the local file), no file is left at
\* download_dir/<asset name>, and nothing at all exists at that path when the
\* failure leaves as exit code 1.
C12_FailedDownloadLeavesNoFile ==
    fResult.stage = "download" =>
        /\ ~IsFile(fDir, fResult.zip)
        /\ fResult.status = "exit1" => ~(fResult.zip \in DOMAIN fDir)

\* a failed download to a path where nothing was before
C12_Witness ==
    /\ fResult.stage = "download"
    /\ fResult.status = "exit1"
    /\ fResult.zip # <<>>
    /\ ~Exists(fDir0, fResult.zip)
    /\ ~Exists(fDir, fResult.zip)

\* the first of --github-token, GH_TOKEN, GITHUB_TOKEN that is set and not empty
\* once trimmed, trimmed; None when there is no such value
C13_FirstNonBlank ==
    LET cand == <<aEnv.cli, aEnv.GH_TOKEN, aEnv.GITHUB_TOKEN>>
        good == {i \in 1..3 : cand[i].some /\ Strip(cand[i].v) # <<>>}
    IN  IF good = {} THEN None
        ELSE Str(Strip(cand[CHOOSE i \in good : \A j \in good : i <= j].v))

\* C13: every outbound request (model catalog, release metadata, asset download)
\* carries "Authorization: Bearer <token>" with the first of the explicit token,
\* GH_TOKEN and GITHUB_TOKEN that is non-empty after trimming, and carries no
\* Authorization header exactly when there is no such value.
C13_BearerPrecedence ==
    \A i \in 1..Len(aRequests) :
        LET h == aRequests[i].headers
        IN  IF C13_FirstNonBlank.some
            THEN /\ "Authorization" \in DOMAIN h
                 /\ h["Authorization"] = <<"B", "e", "a", "r", "e", "r", " ">> \o C13_FirstNonBlank.v
            ELSE "Authorization" \notin DOMAIN h

\* the command the fixed order of conditions asks for, read from the features
\* of the summary
C14_Expected ==
    LET f == stSummary.features
    IN  IF ~stSummary.constitution THEN {"constitution"}
        ELSE IF ~\E i \in DOMAIN f : f[i].spec THEN {"specify"}
        ELSE IF \E i \in DOMAIN f : ~f[i].spec THEN {"finish_specs"}
        ELSE IF \E i \in DOMAIN f : f[i].spec /\ ~f[i].plan THEN {"plan"}
        ELSE IF \E i \in DOMAIN f : f[i].plan /\ ~f[i].tasks THEN {"tasks"}
        ELSE IF \E i \in DOMAIN f : f[i].spec /\ f[i].plan /\ f[i].tasks THEN {"implement"}
        ELSE {"all_ready", "start_first"}

\* C14: the primary suggestion is that of the first condition that holds, in the
\* order: constitution missing, no feature has a spec, some feature misses its
\* spec, some feature waits on a plan, some feature waits on tasks, some feature
\* is fully ready; a generic message when none holds.
C14_PrimaryPrecedence ==
    stPrimary # NoSuggestion => stPrimary.command \in C14_Expected

\* one feature waits on a plan and another on tasks: planning is suggested
C14_Witness ==
    /\ stPrimary.command = "plan"
    /\ stSummary.waiting_plan # <<>>
    /\ stSummary.waiting_tasks # <<>>
    /\ stPrimary.names = <<stSummary.waiting_plan[1].slug>>

\* C15: when the project path is the workspace root, or the workspace root is in
\* no git work tree, sync_workspace_config returns changed = False and the tree
\* under the workspace root is what it was: nothing created, modified, deleted.
C15_SyncNoOp ==
    (sResult.status # "none" /\ (sSame \/ ~sIsGit)) =>
        /\ sResult.status = "returned"
        /\ ~sResult.changed
        /\ sResult.synced = <<>>
        /\ sWorkspace = sWorkspace0

\* a project with .specify/a beside a workspace without .specify, outside git
C15_Witness ==
    /\ sResult.status = "returned"
    /\ ~sSame
    /\ ~sIsGit
    /\ IsFile(sProject, <<".specify", "a">>)
    /\ ~Exists(sWorkspace, <<".specify">>)
    /\ sResult.detail = "workspace root not a git repo"

\* a file under the dot-directory d of the workspace that was not there before
C16_FileCopiedInto(d) ==
    \E p \in DOMAIN sWorkspace :
        /\ Len(p) > 1
        /\ p[1] = d
        /\ IsFile(sWorkspace, p)
        /\ ~Exists(sWorkspace0, p)

\* C16: the result of sync_workspace_config names exactly the directories among
\* .github, .vscode, .specify, in that order, into which at least one file was
\* copied, and changed is True exactly when there is such a directory.
C16_SyncedNamesCopies ==
    sResult.status = "returned" =>
        /\ sResult.synced = SelectSeq(WORKSPACE_DOT_DIRS, C16_FileCopiedInto)
        /\ sResult.changed = (sResult.synced # <<>>)

\* .github and .specify received files; .vscode, whose files were all there, is
\* not named
C16_Witness ==
    /\ sResult.status = "returned"
    /\ sResult.changed
    /\ sResult.synced = <<".github", ".specify">>
    /\ IsFile(sProject, <<".vscode", "a">>)
    /\ IsFile(sWorkspace0, <<".vscode", "a">>)

\* C17: a call of setup_agent_commands for copilot that finds models.json
\* absent, not valid JSON, or valid JSON of another shape than expected (a list,
\* or a github_models value that is no object) does not fail and writes a
\* config file with both github_models and scripts.
C17_TolerantConfigRead ==
    (/\ cfgStatus # "none"
     /\ cfgCall.ai = "copilot"
     /\ cfgOut.kind # "file"
     /\ \/ cfgPrev.k # "obj"
        \/ /\ "github_models" \in DOMAIN cfgPrev.v
           /\ cfgPrev.v["github_models"].k # "obj")
    => /\ cfgStatus = "returned"
       /\ cfgFile.k = "obj"
       /\ {"github_models", "scripts"} \subseteq DOMAIN cfgFile.v

\* C18: no failure cleanup deletes the current directory or a directory that
\* existed before the call: when download_and_extract_template fails, also
\* because the fresh destination already exists, every directory that was at or
\* under the project path (and the current directory itself) is still there.
C18_CleanupSparesExisting ==
    mResult.at # "" =>
        \A p \in DOMAIN mCwd0 :
            (IsDir(mCwd0, p) /\ (p = <<>> \/ IsPrefix(ProjectPath(mHere), p)))
                => (p \in DOMAIN mCwd /\ mCwd[p].t = "dir")

\* C19: an exit of init on a user-input error (name together with --here,
\* neither of them, an unknown --ai, --model or --script value: the non-zero
\* exits taken before a script type is settled) happens before any state is
\* mutated: no request was sent and the model catalog cache was not written.
C19_InputErrorsMutateNothing ==
    (iPc = "exit" /\ iExit # 0 /\ iOpt.script = "" /\ iTracker = <<>>) =>
        /\ ~iWorld.request
        /\ ~iWorld.cache_written

\* the members of the record stored under key in models.json before the call,
\* other than those in assigned, are members of the record written, unchanged
C20_Kept(key, assigned) ==
    StoredRecord(cfgPrev, key) =>
        \A f \in DOMAIN cfgPrev.v[key].v \ assigned :
            /\ cfgFile.v[key].k = "obj"
            /\ f \in DOMAIN cfgFile.v[key].v
            /\ cfgFile.v[key].v[f] = cfgPrev.v[key].v[f]

\* C20: a write of models.json by setup_agent_commands preserves every key it
\* does not set: at top level, inside github_models and inside scripts, a key
\* other than the fields the write assigns is still there with its value.
C20_WritePreservesKeys ==
    (cfgStatus = "returned" /\ cfgCall.ai = "copilot" /\ cfgPrev.k = "obj") =>
        /\ \A key \in DOMAIN cfgPrev.v \ {"github_models", "scripts"} :
               key \in DOMAIN cfgFile.v /\ cfgFile.v[key] = cfgPrev.v[key]
        /\ C20_Kept("github_models", {"selected_model", "last_updated", "catalog_source"})
        /\ C20_Kept("scripts", {"preferred", "folder", "extension", "last_updated"})

\* the text C21 asks for: the template with each "$ARGUMENTS" replaced by the
\* placeholder literal of copilot (again "$ARGUMENTS") and each "{SCRIPT}" by
\* .specify/scripts/<folder>/<stem>.<extension>
C21_Generated(template, stem, script) ==
    [i \in DOMAIN template |->
        IF template[i].t = "script"
        THEN [t |-> "path",
              folder |-> (IF script = "sh" THEN "bash" ELSE "powershell"),
              stem |-> stem,
              ext |-> (IF script = "sh" THEN "sh" ELSE "ps1")]
        ELSE template[i]]

\* C21: after setup_agent_commands for copilot the output directory exists and
\* holds, for every *.md template, the one file <stem>.prompt.md with the
\* template's text after the two literal replacements; it holds nothing else
\* that was not there before, and as many generated files as templates.
C21_OneOutputPerTemplate ==
    (cfgStatus = "returned" /\ cfgCall.ai = "copilot") =>
        LET md   == {n \in DOMAIN cfgTemplates.files : n[2] = ".md"}
            made == {<<n[1], ".prompt.md">> : n \in md}
        IN  /\ cfgOut.kind = "dir"
            /\ Cardinality(made) = Cardinality(md)
            /\ \A n \in md :
                   /\ <<n[1], ".prompt.md">> \in DOMAIN cfgOut.files
                   /\ cfgOut.files[<<n[1], ".prompt.md">>]
                          = C21_Generated(cfgTemplates.files[n], n[1], cfgCall.script)
            /\ \E p \in CommandProjects :
                   /\ p.templates = cfgTemplates
                   /\ DOMAIN cfgOut.files = DOMAIN p.out.files \cup made

\* two templates, a PowerShell call: two prompt files in a directory that the
\* call created, the script path of tasks written with powershell and ps1
C21_Witness ==
    /\ cfgStatus = "returned"
    /\ cfgCall.ai = "copilot"
    /\ cfgCall.script = "ps"
    /\ DOMAIN cfgOut.files = {<<"plan", ".prompt.md">>, <<"tasks", ".prompt.md">>}
    /\ cfgOut.files[<<"tasks", ".prompt.md">>][1]
           = [t |-> "path", folder |-> "powershell", stem |-> "tasks", ext |-> "ps1"]

\* C22: fetch_github_models creates or rewrites the cache file only when the
\* API answered with status 200; a call that failed (another status, or an
\* exception) leaves the cache file as it was.
C22_CacheOnlyAfterSuccess ==
    (kLast.called /\ kCache # kLast.before) => kLast.status = "200"

\* C23: whatever the API answers, whatever use_cache is and whatever the tool
\* left in the cache file, fetch_github_models returns a non-empty map with
\* every fallback model id (gpt-4o and the Claude Sonnet ids among them), and
\* list-models exits 0.
C23_FallbacksAlwaysListed ==
    kLast.called =>
        /\ kLast.models # {}
        /\ GITHUB_MODEL_FALLBACKS \subseteq kLast.models
        /\ {"gpt-4o", "claude-sonnet-4.5"} \subseteq kLast.models
        /\ kLast.exit = 0

\* a call answered from a cache file that an earlier call wrote from the API
C23_Witness ==
    /\ kLast.called
    /\ ~kLast.request
    /\ kLast.before.source = "api"
    /\ "phi-4" \in kLast.models
    /\ kLast.exit = 0

\* the step list C24 expects after the operation: a new key appended as
\* pending by add, the status set by the others (the key appended when it is
\* new), nothing changed by add of a key that is there
C24_Expected ==
    LET b == tkOp.before
        present == \E i \in DOMAIN b : b[i].key = tkOp.key
        status == CASE tkOp.op = "add" -> "pending"
                    [] tkOp.op = "start" -> "running"
                    [] tkOp.op = "complete" -> "done"
                    [] tkOp.op = "error" -> "error"
                    [] tkOp.op = "skip" -> "skipped"
                    [] OTHER -> ""
    IN  IF ~present THEN Append(b, [key |-> tkOp.key, status |-> status])
        ELSE IF tkOp.op = "add" THEN b
        ELSE [i \in DOMAIN b |-> IF b[i].key = tkOp.key
                                 THEN [key |-> tkOp.key, status |-> status] ELSE b[i]]

\* C24: an operation that mutates the tracker invokes the attached callback
\* exactly once, after the mutation (the callback sees the mutated steps); what
\* the callback raises does not leave the operation and the mutation stays;
\* add of a key that is there changes nothing and invokes no callback.
C24_RefreshOncePerMutation ==
    tkOp.n > 0 =>
        LET b == tkOp.before
            present == \E i \in DOMAIN b : b[i].key = tkOp.key
            mutates == tkOp.op # "add" \/ ~present
        IN  /\ ~tkOp.raised
            /\ tkSteps = C24_Expected
            /\ (mutates /\ tkOp.attached) =>
                   /\ Len(tkRefreshes) = tkOp.seen + 1
                   /\ tkRefreshes[Len(tkRefreshes)] = tkSteps
            /\ ~(mutates /\ tkOp.attached) => Len(tkRefreshes) = tkOp.seen
            /\ ~mutates => tkSteps = b

\* complete of a key that was never added, with a callback that raises: the
\* step is there as done and the callback was invoked once
C24_Witness ==
    /\ tkOp.n > 0
    /\ tkOp.op = "complete"
    /\ tkOp.cb = "raises"
    /\ tkOp.attached
    /\ ~\E i \in DOMAIN tkOp.before : tkOp.before[i].key = tkOp.key
    /\ tkSteps[Len(tkSteps)] = [key |-> tkOp.key, status |-> "done"]
    /\ Len(tkRefreshes) = tkOp.seen + 1
    /\ ~tkOp.raised

\* C25: in fresh mode download_and_extract_template leaves every entry outside
\* the destination directory, other than the archive file, as it was, on
\* success and on failure: a sibling proj_temp keeps its place and contents.
C25_FreshTouchesOnlyDestination ==
    (~mHere /\ mResult.status # "none") =>
        \A p \in (DOMAIN mCwd0 \cup DOMAIN mCwd) :
            (~IsPrefix(<<"proj">>, p) /\ p # <<ZipName>>) =>
                /\ p \in DOMAIN mCwd0
                /\ p \in DOMAIN mCwd
                /\ mCwd[p] = mCwd0[p]

\* C26: whenever sync_workspace_config returns changed = False the tree under
\* the workspace root is the tree before the call: no file and no directory
\* was created there.
C26_UnchangedMeansUntouched ==
    (sResult.status = "returned" /\ ~sResult.changed) => sWorkspace = sWorkspace0

\* C27: when init marks the step final done, every other step of its tracker
\* is finished (done, skipped or error): none is left pending or running.
C27_AllStepsFinished ==
    (iPc = "done" /\ \E i \in DOMAIN iTracker :
                        iTracker[i].key = "final" /\ iTracker[i].status = "done") =>
        \A i \in DOMAIN iTracker :
            iTracker[i].status \in {"done", "skipped", "error"}

\* the number of the three waiting lists that hold the feature
C28_ListsHolding(f) ==
    Cardinality({l \in {"missing_spec", "waiting_plan", "waiting_tasks"} :
                    \E i \in DOMAIN stSummary[l] : stSummary[l][i] = f})

\* C28: in every summary a feature that is not ready for implementation is in
\* exactly one of missing_spec, waiting_plan, waiting_tasks, the one of its
\* next_command (specify, plan, tasks), and a ready feature is in none.
C28_WaitingListsPartition ==
    stSummary.computed =>
        \A i \in DOMAIN stSummary.features :
            LET f == stSummary.features[i]
                own == CASE f.next_command = "specify" -> "missing_spec"
                         [] f.next_command = "plan" -> "waiting_plan"
                         [] f.next_command = "tasks" -> "waiting_tasks"
                         [] OTHER -> ""
            IN  IF f.ready_for_implementation
                THEN C28_ListsHolding(f) = 0
                ELSE /\ C28_ListsHolding(f) = 1
                     /\ \E j \in DOMAIN stSummary[own] : stSummary[own][j] = f

\* C29: in every summary tasks_ready <= plans_ready <= specs_ready <=
\* feature_total, and the pending counts the workflow table shows (plans
\* against specs_ready, tasks against plans_ready) are not negative.
C29_CountsOrdered ==
    stSummary.computed =>
        /\ stSummary.tasks_ready <= stSummary.plans_ready
        /\ stSummary.plans_ready <= stSummary.specs_ready
        /\ stSummary.specs_ready <= stSummary.feature_total
        /\ FormatStageProgress(stSummary.specs_ready, stSummary.feature_total).missing >= 0
        /\ stSummary.specs_ready # 0 =>
               FormatStageProgress(stSummary.plans_ready, stSummary.specs_ready).missing >= 0
        /\ stSummary.plans_ready # 0 =>
               FormatStageProgress(stSummary.tasks_ready, stSummary.plans_ready).missing >= 0

\* C30: the summary of every project, and the default summary of a directory
\* that is no project, has at least one follow-up, so the primary suggestion
\* is the first follow-up and never one of the two generic messages.
C30_FollowupsNeverEmpty ==
    /\ DeriveFollowups(DefaultSummary) # <<>>
    /\ stSummary.computed => DeriveFollowups(stSummary) # <<>>
    /\ stPrimary # NoSuggestion =>
           /\ stPrimary = DeriveFollowups(stSummary)[1]
           /\ stPrimary.command \notin {"all_ready", "start_first"}

\* a project with a constitution whose features are all ready: /implement is
\* the only follow-up
C30_Witness ==
    /\ stSummary.constitution
    /\ stSummary.feature_total = MaxFeatures
    /\ stSummary.tasks_ready = MaxFeatures
    /\ Len(DeriveFollowups(stSummary)) = 1
    /\ stPrimary.command = "implement"

====
